---- MODULE Spec2Model ----
(***************************************************************************)
(* Model of the provider-data pipeline of bnandana/POC: five Lambda        *)
(* handlers (providerEndpoint, decryptionHandler, extractOrgs,             *)
(* cloudflareFetchHandler, prepareDataToFiles) driven by the Step          *)
(* Functions state machine that createStateMachine.ts defines.             *)
(*                                                                         *)
(* JSON values are tagged records.  A string is a sequence of tokens: a    *)
(* token stands for a run of characters that holds no separator, and the   *)
(* separators ",", "." and "\n" are tokens of their own, so that joining   *)
(* and splitting are computed and not assumed.                             *)
(***************************************************************************)
EXTENDS Integers, Sequences, FiniteSets, TLC

VARIABLES
    pc,         \* the state of the execution (a state name of the definition, or an end state)
    input,      \* the JSON input of the current state (the event of its handler)
    output,     \* the result of the last top-level task that returned
    retries,    \* retries already made of the current top-level state
    branches,   \* ProcessOrgs: one record per Map iteration
    s3,         \* the bucket: key -> object
    puts,       \* the PutObject calls that succeeded, in order
    clock,      \* the time new Date() reads
    source,     \* the record the provider holds
    apiMenu,    \* the answers the external API can give in this run
    faultsLeft, \* Lambda service faults the environment may still inject
    ticksLeft,  \* clock ticks the environment may still make
    requests,   \* the requests sent to the external API so far
    events,     \* the bucket's object-created notifications not yet delivered
    calls,      \* the calls made so far, in order (invocations, API commands)
    cloud,      \* the resources of the account that setup creates and reads
    frame       \* the local variables of the function of the setup script that runs

vars == <<pc, input, output, retries, branches, s3, puts, clock, source, apiMenu,
          faultsLeft, ticksLeft, requests, events, calls, cloud, frame>>

\* the variables only the setup script and the bucket's notification change
provisioning == <<events, calls, cloud, frame>>

\* an account in which setup has not run
NoResources ==
    [role |-> [exists |-> FALSE, managed |-> {}, inline |-> {}],
     functions |-> {}, bucket |-> FALSE, permission |-> FALSE, notification |-> {},
     machines |-> 0]

NotProvisioning ==
    /\ events = <<>>
    /\ calls = <<>>
    /\ cloud = NoResources
    /\ frame = <<>>

(***************************************************************************)
(* Bounds of the model.                                                    *)
(***************************************************************************)
MaxOrgs == 2
FanOrgs == 11
MaxFaults == 1
MaxTicks == 1
\* elements of an array of a payload
MaxElems == 2
\* service faults of an execution of SpecRetry
RetryFaults == 16

(***************************************************************************)
(* JSON values.                                                            *)
(***************************************************************************)
Undef == [t |-> "undefined"]
Null == [t |-> "null"]
Str(toks) == [t |-> "str", s |-> toks]
Num(n) == [t |-> "num", n |-> n]
Bool(b) == [t |-> "bool", b |-> b]
\* an object the handlers read by fixed property names
Rec(o) == [t |-> "rec", o |-> o]
\* an object of a payload: its fields in enumeration order, <<key tokens, value>>
Obj(fields) == [t |-> "obj", fields |-> fields]
Arr(items) == [t |-> "arr", items |-> items]
\* what a handler that throws leaves: the Lambda invocation errors
Thrown(msg) == [t |-> "thrown", message |-> msg]

IsNullish(v) == v.t \in {"undefined", "null"}

\* v[f] for a fixed property name; undefined when v has no such property
Get(v, f) ==
    IF v.t = "rec" /\ f \in DOMAIN v.o THEN v.o[f] ELSE Undef

\* {...v, f: x}
Spread(v, f, x) ==
    Rec([g \in (DOMAIN v.o) \cup {f} |-> IF g = f THEN x ELSE v.o[g]])

\* new Date().toISOString()
Ts(now) == Str(<<"T" \o ToString(now)>>)

\* JSON.stringify then JSON.parse, as at every handler boundary: a property whose
\* value is undefined is dropped, an undefined array element becomes null
RECURSIVE Wire(_)
Wire(v) ==
    CASE v.t = "rec" ->
            Rec([g \in {h \in DOMAIN v.o : v.o[h].t # "undefined"} |-> Wire(v.o[g])])
      [] v.t = "arr" ->
            Arr([i \in 1..Len(v.items) |->
                    IF v.items[i].t = "undefined" THEN Null ELSE Wire(v.items[i])])
      [] v.t = "obj" ->
            Obj([i \in 1..Len(v.fields) |-> <<v.fields[i][1], Wire(v.fields[i][2])>>])
      [] OTHER -> v

\* the catch block of every handler: a status 500 result with error, message, timestamp
Failure(error, message, now) ==
    Rec([statusCode |-> Num(500),
         body |-> Rec([error |-> Str(<<error>>),
                       message |-> Str(message),
                       timestamp |-> Ts(now)])])

Success(body) == Rec([statusCode |-> Num(200), body |-> body])

\* the message of the TypeError a property read of undefined or null raises
TypeErrorMsg == <<"Cannot read properties of undefined">>
NotAFunctionMsg == <<"is not a function">>

(***************************************************************************)
(* Stage 1: providerEndpoint.ts.  The handler ignores its event and        *)
(* returns the provider's record; nothing in its try block can throw.      *)
(***************************************************************************)
ProviderEndpoint(event, record) == Wire(Success(record))

(***************************************************************************)
(* Stage 2: decryptionHandler.ts.                                          *)
(***************************************************************************)
DecryptionHandlerNoSpread(event, now) ==
    LET providerData == Get(event, "body") IN
    IF IsNullish(event) \/ IsNullish(providerData)
          \/ IsNullish(Get(providerData, "orgs"))
    THEN Wire(Failure("Failed to decrypt data", TypeErrorMsg, now))
    ELSE Wire(Success(Rec([providerId |-> Get(providerData, "providerId"),
                           providerName |-> Get(providerData, "providerName"),
                           orgs |-> Get(providerData, "orgs"),
                           secrets |-> Str(<<"decrypted-secret-data">>)])))

DecryptionHandler(event, now) ==
    LET providerData == Get(event, "body") IN
    \* event.body, providerData.providerId and providerData.orgs.length throw on
    \* undefined or null
    IF IsNullish(event) \/ IsNullish(providerData)
          \/ IsNullish(Get(providerData, "orgs"))
    THEN Wire(Failure("Failed to decrypt data", TypeErrorMsg, now))
    ELSE Wire(Success(Spread(providerData, "secrets",
                             Str(<<"decrypted-secret-data">>))))

(***************************************************************************)
(* Stage 3: extractOrgs.ts.                                                *)
(***************************************************************************)
\* org => ({id: org.orgId, connectorParams: org.connectorParams})
ExtractedOrg(org) ==
    Rec([id |-> Get(org, "orgId"), connectorParams |-> Get(org, "connectorParams")])

MapOrgsDropLast(orgs) == [i \in 1..(Len(orgs) - 1) |-> ExtractedOrg(orgs[i])]

\* providerData.orgs.map(...)
MapOrgs(orgs) == [i \in 1..Len(orgs) |-> ExtractedOrg(orgs[i])]

ExtractOrgsLenient(event, now) ==
    LET providerData == Get(event, "body")
        orgs == Get(providerData, "orgs")
    IN  IF IsNullish(event) \/ IsNullish(providerData)
        THEN Wire(Failure("Failed to extract organization data", TypeErrorMsg, now))
        ELSE IF orgs.t # "arr"
        THEN Wire(Success(Rec([orgIds |-> Arr(<<>>)])))
        ELSE Wire(Success(Rec([orgIds |-> Arr(MapOrgs(orgs.items))])))

ExtractOrgs(event, now) ==
    LET providerData == Get(event, "body")
        orgs == Get(providerData, "orgs")
    IN  IF IsNullish(event) \/ IsNullish(providerData) \/ IsNullish(orgs)
        THEN Wire(Failure("Failed to extract organization data", TypeErrorMsg, now))
        ELSE IF orgs.t # "arr"
        THEN \* orgs.map is not a function
             Wire(Failure("Failed to extract organization data", NotAFunctionMsg, now))
        ELSE IF \E i \in 1..Len(orgs.items) : IsNullish(orgs.items[i])
        THEN Wire(Failure("Failed to extract organization data", TypeErrorMsg, now))
        ELSE Wire(Success(Rec([orgIds |-> Arr(MapOrgs(orgs.items))])))

(***************************************************************************)
(* Stage 4: cloudflareFetchHandler.  An answer of the external API is      *)
(*   [kind |-> "json", status, data]  a body that JSON.parse accepts,      *)
(*   [kind |-> "garbage", status]     a body that JSON.parse rejects,      *)
(*   [kind |-> "neterr"]              the request emits 'error'.           *)
(***************************************************************************)
\* makeCloudflareRequest: resolves {status, data} or rejects with an Error
MakeCloudflareRequestOneMessage(answer) ==
    CASE answer.kind = "json" ->
            [ok |-> TRUE, status |-> answer.status, data |-> answer.data]
      [] OTHER ->
            [ok |-> FALSE, message |-> <<"Request failed: ", "socket hang up">>]

MakeCloudflareRequest(answer) ==
    CASE answer.kind = "json" ->
            [ok |-> TRUE, status |-> answer.status, data |-> answer.data]
      [] answer.kind = "garbage" ->
            [ok |-> FALSE, message |-> <<"Failed to parse response: ", "Unexpected token">>]
      [] OTHER ->
            [ok |-> FALSE, message |-> <<"Request failed: ", "socket hang up">>]

\* the calls of makeCloudflareRequest one invocation makes: one, after the
\* destructuring of the event and the read of connectorParams.exchange_id
CloudflareRequestsReissued(event) ==
    IF IsNullish(event) \/ IsNullish(Get(event, "connectorParams")) THEN 0 ELSE 2

CloudflareRequests(event) ==
    IF IsNullish(event) \/ IsNullish(Get(event, "connectorParams")) THEN 0 ELSE 1

CloudflareFetchHandler(event, answer, now) ==
    LET id == Get(event, "id")
        connectorParams == Get(event, "connectorParams")
        radarResponse == MakeCloudflareRequest(answer)
    IN  IF IsNullish(event) \/ IsNullish(connectorParams)
        THEN Wire(Failure("Failed to fetch Cloudflare data", TypeErrorMsg, now))
        ELSE IF ~radarResponse.ok
        THEN Wire(Failure("Failed to fetch Cloudflare data", radarResponse.message, now))
        ELSE Wire(Success(Rec([orgId |-> id,
                               connectorParams |-> connectorParams,
                               radarData |-> radarResponse.data,
                               timestamp |-> Ts(now)])))

(***************************************************************************)
(* Stage 5: prepareDataToFiles (src/unnamed/part_000).                     *)
(***************************************************************************)
\* String(v), as a template literal or Array.prototype.join renders a value
RECURSIVE ToStr(_)
RECURSIVE JoinValues(_, _)
RECURSIVE JoinValuesSkipEmpty(_, _)
ToStr(v) ==
    CASE v.t = "str" -> v.s
      [] v.t = "num" -> <<ToString(v.n)>>
      [] v.t = "bool" -> IF v.b THEN <<"true">> ELSE <<"false">>
      [] v.t = "undefined" -> <<"undefined">>
      [] v.t = "null" -> <<"null">>
      [] v.t = "arr" -> JoinValues(v.items, 1)
      [] OTHER -> <<"[object Object]">>

\* items.join(','): null and undefined elements render as the empty string
JoinValuesSkipEmpty(items, k) ==
    IF k > Len(items) THEN <<>>
    ELSE LET str == IF IsNullish(items[k]) THEN <<>> ELSE ToStr(items[k])
         IN  str \o (IF k < Len(items) /\ str # <<>> THEN <<",">> ELSE <<>>)
                 \o JoinValuesSkipEmpty(items, k + 1)

JoinValues(items, k) ==
    IF k > Len(items) THEN <<>>
    ELSE (IF IsNullish(items[k]) THEN <<>> ELSE ToStr(items[k]))
         \o (IF k < Len(items) THEN <<",">> ELSE <<>>)
         \o JoinValues(items, k + 1)

\* the entries a for-in loop visits, <<key, value>>: the fields of an object, the
\* indices of an array, the positions of a string; nothing for any other value
Entries(v) ==
    CASE v.t = "obj" -> v.fields
      [] v.t = "arr" -> [i \in 1..Len(v.items) |-> <<<<ToString(i - 1)>>, v.items[i]>>]
      [] v.t = "str" -> [i \in 1..Len(v.s) |-> <<<<ToString(i - 1)>>, Str(<<v.s[i]>>)>>]
      [] OTHER -> <<>>

\* typeof v === 'object' && v !== null
IsObjectLike(v) == v.t \in {"obj", "arr", "rec"}

\* prefix ? `${prefix}.${key}` : key
PathOfKeyOnly(prefix, key) == key

PathOf(prefix, key) == IF prefix # <<>> THEN prefix \o <<".">> \o key ELSE key

\* flattenObject: the keys added to allKeys, in the order of the walk
RECURSIVE FlattenObject(_, _)
RECURSIVE FlattenEntries(_, _, _)
FlattenObject(obj, prefix) == FlattenEntries(Entries(obj), 1, prefix)

FlattenEntries(entries, k, prefix) ==
    IF k > Len(entries) THEN <<>>
    ELSE LET key == entries[k][1]
             val == entries[k][2]
         IN  (IF IsObjectLike(val)
              THEN FlattenObject(val, PathOf(prefix, key))
              ELSE <<PathOf(prefix, key)>>)
             \o FlattenEntries(entries, k + 1, prefix)

\* a Set keeps the first insertion of each key
RECURSIVE Dedup(_)
Dedup(q) ==
    IF q = <<>> THEN <<>>
    ELSE LET r == Dedup(SubSeq(q, 1, Len(q) - 1))
             x == q[Len(q)]
         IN  IF \E i \in 1..Len(r) : r[i] = x THEN r ELSE Append(r, x)

\* path.split('.')
RECURSIVE Split(_, _)
Split(toks, sep) ==
    IF \A i \in 1..Len(toks) : toks[i] # sep THEN <<toks>>
    ELSE LET i == CHOOSE j \in 1..Len(toks) :
                      toks[j] = sep /\ \A h \in 1..(j - 1) : toks[h] # sep
         IN  <<SubSeq(toks, 1, i - 1)>> \o Split(SubSeq(toks, i + 1, Len(toks)), sep)

\* acc?.[part]
Index(acc, part) ==
    CASE IsNullish(acc) -> Undef
      [] acc.t = "obj" ->
            IF \E i \in 1..Len(acc.fields) : acc.fields[i][1] = part
            THEN acc.fields[CHOOSE i \in 1..Len(acc.fields) : acc.fields[i][1] = part][2]
            ELSE Undef
      [] acc.t = "arr" ->
            IF \E i \in 1..Len(acc.items) : part = <<ToString(i - 1)>>
            THEN acc.items[CHOOSE i \in 1..Len(acc.items) : part = <<ToString(i - 1)>>]
            ELSE IF part = <<"length">> THEN Num(Len(acc.items)) ELSE Undef
      [] acc.t = "str" ->
            IF \E i \in 1..Len(acc.s) : part = <<ToString(i - 1)>>
            THEN Str(<<acc.s[CHOOSE i \in 1..Len(acc.s) : part = <<ToString(i - 1)>>]>>)
            ELSE IF part = <<"length">> THEN Num(Len(acc.s)) ELSE Undef
      [] OTHER -> Undef

RECURSIVE Reduce(_, _, _)
Reduce(parts, k, acc) ==
    IF k > Len(parts) THEN acc ELSE Reduce(parts, k + 1, Index(acc, parts[k]))

\* getValue: path.split('.').reduce((acc, part) => acc?.[part], obj) ?? ''
GetValue(obj, path) ==
    LET v == Reduce(Split(path, "."), 1, obj)
    IN  IF IsNullish(v) THEN Str(<<>>) ELSE v

\* strings.join(',')
RECURSIVE JoinStrings(_, _)
JoinStrings(strs, k) ==
    IF k > Len(strs) THEN <<>>
    ELSE strs[k] \o (IF k < Len(strs) THEN <<",">> ELSE <<>>) \o JoinStrings(strs, k + 1)

Headers(data) == Dedup(FlattenObject(Get(data, "radarData"), <<>>))

Row(data) ==
    LET headers == Headers(data)
    IN  [i \in 1..Len(headers) |-> GetValue(Get(data, "radarData"), headers[i])]

\* convertToCSV: the header line, a newline, the data line
ConvertToCSVTrailingNewline(data) ==
    JoinStrings(Headers(data), 1) \o <<"\n">> \o JoinValues(Row(data), 1) \o <<"\n">>

ConvertToCSV(data) ==
    JoinStrings(Headers(data), 1) \o <<"\n">> \o JoinValues(Row(data), 1)

\* JSON.stringify(v): the text, named by the value JSON.parse gives back for it
JSONStringify(v) == [t |-> "text", parsed |-> Wire(v)]

\* `${data.orgId}/${timestamp}/data.json` and `${data.orgId}/${timestamp}/data.csv`
ObjectKey(data, timestamp, ext) ==
    ToStr(Get(data, "orgId")) \o <<"/">> \o ToStr(timestamp) \o <<"/", "data", ".", ext>>

PutJsonRadarOnly(data, timestamp) ==
    [Key |-> ObjectKey(data, timestamp, "json"),
     Body |-> JSONStringify(Get(data, "radarData")),
     ContentType |-> "application/json"]

PutJson(data, timestamp) ==
    [Key |-> ObjectKey(data, timestamp, "json"),
     Body |-> JSONStringify(data),
     ContentType |-> "application/json"]

PutCsv(data, timestamp) ==
    [Key |-> ObjectKey(data, timestamp, "csv"),
     Body |-> [t |-> "text", csv |-> ConvertToCSV(data)],
     ContentType |-> "text/csv"]

S3ErrorMsg == <<"PutObject failed">>

\* the for loop over results.entries(), from entry i on, with the PutObject calls
\* made so far; the failAt-th PutObject call of the invocation is the one S3
\* rejects (0: none).  Gives the thrown message (<<>> when the loop ends) and
\* the calls that succeeded.
RECURSIVE WriterLoopPutsApart(_, _, _, _, _)
WriterLoopPutsApart(results, i, timestamp, done, failAt) ==
    IF i > Len(results)
    THEN [thrown |-> <<>>, puts |-> done, processedCount |-> i - 1]
    ELSE LET result == results[i]
             data == Get(result, "body")
         IN  IF IsNullish(result)
             THEN [thrown |-> TypeErrorMsg, puts |-> done, processedCount |-> i - 1]
             ELSE IF Get(result, "statusCode") # Num(200)
             THEN [thrown |-> <<"Invalid status code ">>
                               \o ToStr(Get(result, "statusCode"))
                               \o <<" for record ", ToString(i)>>,
                   puts |-> done, processedCount |-> i - 1]
             ELSE IF IsNullish(data) \/ IsNullish(Get(data, "connectorParams"))
             THEN [thrown |-> TypeErrorMsg, puts |-> done, processedCount |-> i - 1]
             ELSE IF failAt = Len(done) + 1
             THEN [thrown |-> S3ErrorMsg,
                   puts |-> Append(done, PutCsv(data, timestamp)),
                   processedCount |-> i - 1]
             ELSE IF failAt = Len(done) + 2
             THEN [thrown |-> S3ErrorMsg,
                   puts |-> Append(done, PutJson(data, timestamp)),
                   processedCount |-> i - 1]
             ELSE WriterLoopPutsApart(results, i + 1, timestamp,
                     done \o <<PutJson(data, timestamp), PutCsv(data, timestamp)>>,
                     failAt)

RECURSIVE WriterLoopCsvFirst(_, _, _, _, _)
WriterLoopCsvFirst(results, i, timestamp, done, failAt) ==
    IF i > Len(results)
    THEN [thrown |-> <<>>, puts |-> done, processedCount |-> i - 1]
    ELSE LET result == results[i]
             data == Get(result, "body")
         IN  IF IsNullish(result)
             THEN [thrown |-> TypeErrorMsg, puts |-> done, processedCount |-> i - 1]
             ELSE IF Get(result, "statusCode") # Num(200)
             THEN [thrown |-> <<"Invalid status code ">>
                               \o ToStr(Get(result, "statusCode"))
                               \o <<" for record ", ToString(i)>>,
                   puts |-> done, processedCount |-> i - 1]
             ELSE IF IsNullish(data) \/ IsNullish(Get(data, "connectorParams"))
             THEN [thrown |-> TypeErrorMsg, puts |-> done, processedCount |-> i - 1]
             ELSE IF failAt = Len(done) + 1
             THEN [thrown |-> S3ErrorMsg, puts |-> done, processedCount |-> i - 1]
             ELSE IF failAt = Len(done) + 2
             THEN [thrown |-> S3ErrorMsg,
                   puts |-> Append(done, PutCsv(data, timestamp)),
                   processedCount |-> i - 1]
             ELSE WriterLoopCsvFirst(results, i + 1, timestamp,
                     done \o <<PutCsv(data, timestamp), PutJson(data, timestamp)>>,
                     failAt)

RECURSIVE WriterLoop(_, _, _, _, _)
WriterLoop(results, i, timestamp, done, failAt) ==
    IF i > Len(results)
    THEN [thrown |-> <<>>, puts |-> done, processedCount |-> i - 1]
    ELSE LET result == results[i]
             data == Get(result, "body")
         IN  IF IsNullish(result)
             THEN [thrown |-> TypeErrorMsg, puts |-> done, processedCount |-> i - 1]
             ELSE IF Get(result, "statusCode") # Num(200)
             THEN [thrown |-> <<"Invalid status code ">>
                               \o ToStr(Get(result, "statusCode"))
                               \o <<" for record ", ToString(i)>>,
                   puts |-> done, processedCount |-> i - 1]
             ELSE IF IsNullish(data) \/ IsNullish(Get(data, "connectorParams"))
             THEN [thrown |-> TypeErrorMsg, puts |-> done, processedCount |-> i - 1]
             ELSE IF failAt = Len(done) + 1
             THEN [thrown |-> S3ErrorMsg, puts |-> done, processedCount |-> i - 1]
             ELSE IF failAt = Len(done) + 2
             THEN [thrown |-> S3ErrorMsg,
                   puts |-> Append(done, PutJson(data, timestamp)),
                   processedCount |-> i - 1]
             ELSE WriterLoop(results, i + 1, timestamp,
                     done \o <<PutJson(data, timestamp), PutCsv(data, timestamp)>>,
                     failAt)

BucketName == <<"stepfunction-poc-bucket-12345">>

\* a handler that takes the event of an object-created notification for a batch
\* of one and saves the object it names again
PrepareDataToFilesResave(event, startTime, endTime, failAt) ==
    IF Get(event, "Records").t = "arr"
    THEN [result |-> Wire(Success(Rec([message |-> Str(<<"Data processing completed">>)]))),
          puts |-> IF failAt = 1 THEN <<>>
                   ELSE <<[Key |-> Get(Get(Get(Get(event, "Records").items[1], "s3"),
                                           "object"), "key").s,
                           Body |-> [t |-> "text", csv |-> <<>>],
                           ContentType |-> "text/csv"]>>]
    ELSE
        LET results == Get(event, "batchResults")
            timestamp == Ts(startTime)
        IN  IF IsNullish(event) \/ IsNullish(results)
            THEN \* event.batchResults.length is read before the try block
                 [result |-> Thrown(TypeErrorMsg), puts |-> <<>>]
            ELSE IF results.t # "arr"
            THEN \* results.entries is not a function
                 [result |-> Wire(Failure("Failed to process data", NotAFunctionMsg, endTime)),
                  puts |-> <<>>]
            ELSE LET run == WriterLoop(results.items, 1, timestamp, <<>>, failAt)
                 IN  IF run.thrown # <<>>
                     THEN [result |-> Wire(Failure("Failed to process data", run.thrown,
                                                   endTime)),
                           puts |-> run.puts]
                     ELSE [result |-> Wire(Success(Rec(
                                        [message |-> Str(<<"Data processing completed">>),
                                         bucketName |-> Str(BucketName),
                                         processedCount |-> Num(run.processedCount),
                                         processingTimeMs |-> Num(endTime - startTime),
                                         startTime |-> Ts(startTime),
                                         endTime |-> Ts(endTime)]))),
                           puts |-> run.puts]

\* the handler: startTime and endTime (or errorTime) are the two clock reads.
\* Gives its result and the PutObject calls that succeeded.
PrepareDataToFiles(event, startTime, endTime, failAt) ==
    LET results == Get(event, "batchResults")
        timestamp == Ts(startTime)
    IN  IF IsNullish(event) \/ IsNullish(results)
        THEN \* event.batchResults.length is read before the try block
             [result |-> Thrown(TypeErrorMsg), puts |-> <<>>]
        ELSE IF results.t # "arr"
        THEN \* results.entries is not a function
             [result |-> Wire(Failure("Failed to process data", NotAFunctionMsg, endTime)),
              puts |-> <<>>]
        ELSE LET run == WriterLoop(results.items, 1, timestamp, <<>>, failAt)
             IN  IF run.thrown # <<>>
                 THEN [result |-> Wire(Failure("Failed to process data", run.thrown,
                                               endTime)),
                       puts |-> run.puts]
                 ELSE [result |-> Wire(Success(Rec(
                                    [message |-> Str(<<"Data processing completed">>),
                                     bucketName |-> Str(BucketName),
                                     processedCount |-> Num(run.processedCount),
                                     processingTimeMs |-> Num(endTime - startTime),
                                     startTime |-> Ts(startTime),
                                     endTime |-> Ts(endTime)]))),
                       puts |-> run.puts]

\* the bucket after the PutObject calls of q: a later call replaces an earlier
\* one on the same key
RECURSIVE ApplyPuts(_, _)
ApplyPuts(bucket, q) ==
    IF q = <<>> THEN bucket
    ELSE LET p == Head(q)
             obj == [Body |-> p.Body, ContentType |-> p.ContentType]
         IN  ApplyPuts([k \in (DOMAIN bucket) \cup {p.Key} |->
                            IF k = p.Key THEN obj ELSE bucket[k]],
                       Tail(q))

(***************************************************************************)
(* The state machine definition of createStateMachine.ts.                  *)
(***************************************************************************)
StartAt == "ProviderEndpoint"

TaskStates == {"ProviderEndpoint", "DecryptionHandler", "ExtractOrgs", "PrepareDataToFiles"}

\* the Next field of each state; End: true ends the execution as succeeded
NextOfSkipping(state) ==
    CASE state = "ProviderEndpoint" -> "ExtractOrgs"
      [] state = "DecryptionHandler" -> "ExtractOrgs"
      [] state = "ExtractOrgs" -> "ProcessOrgs"
      [] state = "ProcessOrgs" -> "PrepareDataToFiles"
      [] OTHER -> "Succeeded"

NextOfWriterAgain(state) ==
    CASE state = "ProviderEndpoint" -> "DecryptionHandler"
      [] state = "DecryptionHandler" -> "ExtractOrgs"
      [] state = "ExtractOrgs" -> "ProcessOrgs"
      [] state = "ProcessOrgs" -> "PrepareDataToFiles"
      [] state = "PrepareDataToFiles" -> "PrepareDataToFiles"
      [] OTHER -> "Succeeded"

NextOf(state) ==
    CASE state = "ProviderEndpoint" -> "DecryptionHandler"
      [] state = "DecryptionHandler" -> "ExtractOrgs"
      [] state = "ExtractOrgs" -> "ProcessOrgs"
      [] state = "ProcessOrgs" -> "PrepareDataToFiles"
      [] OTHER -> "Succeeded"

\* Retry: ErrorEquals States.ALL, MaxAttempts 3 (the retries after the first attempt)
MaxAttempts == 3
\* ProcessOrgs.MaxConcurrency
MaxConcurrency == 10

\* the Retry field of each state of the definition, the task of the Iterator included
RetryOf(state) ==
    CASE state = "ProviderEndpoint" ->
            [ErrorEquals |-> <<"States.ALL">>, IntervalSeconds |-> 2,
             MaxAttempts |-> MaxAttempts, BackoffRate |-> 2]
      [] state = "DecryptionHandler" ->
            [ErrorEquals |-> <<"States.ALL">>, IntervalSeconds |-> 2,
             MaxAttempts |-> MaxAttempts, BackoffRate |-> 2]
      [] state = "ExtractOrgs" ->
            [ErrorEquals |-> <<"States.ALL">>, IntervalSeconds |-> 2,
             MaxAttempts |-> MaxAttempts, BackoffRate |-> 2]
      [] state = "ProcessOrgs" ->
            [ErrorEquals |-> <<"States.ALL">>, IntervalSeconds |-> 2,
             MaxAttempts |-> MaxAttempts, BackoffRate |-> 2]
      [] state = "CloudflareFetchHandler" ->
            [ErrorEquals |-> <<"States.ALL">>, IntervalSeconds |-> 2,
             MaxAttempts |-> MaxAttempts, BackoffRate |-> 2]
      [] OTHER ->
            [ErrorEquals |-> <<"States.ALL">>, IntervalSeconds |-> 2,
             MaxAttempts |-> MaxAttempts, BackoffRate |-> 2]

\* ProcessOrgs.ItemsPath: $.body.orgIds
ItemsPath(in) == Get(Get(in, "body"), "orgIds")

\* PrepareDataToFiles.Parameters: {"batchResults.$": "$"}
Parameters(in) == Rec([batchResults |-> in])

\* attempts counts the invocations made for the item over the whole execution
Pending == [st |-> "pending", retries |-> 0, out |-> Undef, attempts |-> 0]

Running(bs) == {i \in 1..Len(bs) : bs[i].st = "running"}

\* a further iteration may start while fewer than MaxConcurrency are running
MayStartUnlimited(bs) == TRUE

MayStart(bs) == Cardinality(Running(bs)) < MaxConcurrency

\* the Map state has its output when every iteration has ended
MapCompleteEager(bs) == \A i \in 1..Len(bs) : bs[i].st # "pending"

MapComplete(bs) == \A i \in 1..Len(bs) : bs[i].st = "done"

\* the result of iteration i is element i of the Map state's output
StoreBranchInCompletionOrder(bs, i, out) ==
    LET j == CHOOSE h \in 1..Len(bs) :
                 bs[h].out = Undef /\ \A g \in 1..(h - 1) : bs[g].out # Undef
    IN  [bs EXCEPT ![i].st = "done", ![j].out = out]

StoreBranch(bs, i, out) == [bs EXCEPT ![i].st = "done", ![i].out = out]

MapOutput(bs) == Arr([i \in 1..Len(bs) |-> bs[i].out])

(***************************************************************************)
(* Steps of an execution.                                                  *)
(***************************************************************************)
\* the execution enters state next with the previous state's output; the
\* iteration records of ProcessOrgs are kept once it is left
Enter(next, val) ==
    IF next = "ProcessOrgs"
    THEN IF ItemsPath(val).t = "arr"
         THEN /\ pc' = next
              /\ input' = val
              /\ branches' = [i \in 1..Len(ItemsPath(val).items) |-> Pending]
         ELSE \* States.Runtime: the path selects no array; it is not retried
              /\ pc' = "Failed"
              /\ input' = val
              /\ branches' = <<>>
    ELSE /\ pc' = next
         /\ input' = IF next = "PrepareDataToFiles" THEN Parameters(val) ELSE val
         /\ branches' = branches

\* new Date(): the clock may have advanced since it was last read
ReadClock(now) ==
    /\ now \in clock..(clock + (IF ticksLeft > 0 THEN 1 ELSE 0))
    /\ clock' = now
    /\ ticksLeft' = ticksLeft - (now - clock)

\* a state whose attempt errored is retried MaxAttempts times, then the execution fails
RetryOrFailOnceMore ==
    IF retries <= MaxAttempts
    THEN /\ retries' = retries + 1
         /\ UNCHANGED <<pc, input, branches>>
    ELSE /\ pc' = "Failed"
         /\ retries' = 0
         /\ UNCHANGED <<input, branches>>

RetryOrFail ==
    IF retries < MaxAttempts
    THEN /\ retries' = retries + 1
         /\ UNCHANGED <<pc, input, branches>>
    ELSE /\ pc' = "Failed"
         /\ retries' = 0
         /\ UNCHANGED <<input, branches>>

RunProviderEndpoint ==
    /\ pc = "ProviderEndpoint"
    /\ output' = ProviderEndpoint(input, source)
    /\ Enter(NextOf(pc), output')
    /\ retries' = 0
    /\ UNCHANGED <<provisioning, s3, puts, clock, source, apiMenu, requests, faultsLeft, ticksLeft>>

RunDecryptionHandler ==
    /\ pc = "DecryptionHandler"
    /\ \E now \in clock..(clock + 1) :
          /\ ReadClock(now)
          /\ output' = DecryptionHandler(input, now)
          \* new Date() is called in the catch block only
          /\ Get(output', "statusCode") = Num(200) => now = clock
    /\ Enter(NextOf(pc), output')
    /\ retries' = 0
    /\ UNCHANGED <<provisioning, s3, puts, source, apiMenu, requests, faultsLeft>>

RunExtractOrgs ==
    /\ pc = "ExtractOrgs"
    /\ \E now \in clock..(clock + 1) :
          /\ ReadClock(now)
          /\ output' = ExtractOrgs(input, now)
          \* new Date() is called in the catch block only
          /\ Get(output', "statusCode") = Num(200) => now = clock
    /\ Enter(NextOf(pc), output')
    /\ retries' = 0
    /\ UNCHANGED <<provisioning, s3, puts, source, apiMenu, requests, faultsLeft>>

\* the Lambda service fails an invocation of a top-level task (a timeout, a
\* throttle): States.ALL matches it
TaskFault ==
    /\ pc \in TaskStates
    /\ faultsLeft > 0
    /\ faultsLeft' = faultsLeft - 1
    /\ RetryOrFail
    /\ UNCHANGED <<provisioning, output, s3, puts, clock, source, apiMenu, requests, ticksLeft>>

\* the Map state starts its iterations in index order
StartIteration(i) ==
    /\ pc = "ProcessOrgs"
    /\ i \in 1..Len(branches)
    /\ branches[i].st = "pending"
    /\ \A j \in 1..(i - 1) : branches[j].st # "pending"
    /\ MayStart(branches)
    /\ branches' = [branches EXCEPT ![i].st = "running"]
    /\ UNCHANGED <<provisioning, pc, input, output, retries, s3, puts, clock, source, apiMenu, requests,
                   faultsLeft, ticksLeft>>

\* the handler of iteration i returns: the iteration ends (End: true)
CompleteIteration(i) ==
    /\ pc = "ProcessOrgs"
    /\ i \in 1..Len(branches)
    /\ branches[i].st = "running"
    /\ \E answer \in apiMenu, now \in clock..(clock + 1) :
          /\ ReadClock(now)
          /\ branches' = StoreBranch([branches EXCEPT ![i].attempts = @ + 1], i,
                 CloudflareFetchHandler(ItemsPath(input).items[i], answer, now))
    /\ requests' = requests + CloudflareRequests(ItemsPath(input).items[i])
    /\ UNCHANGED <<provisioning, pc, input, output, retries, s3, puts, source, apiMenu, faultsLeft>>

\* the Lambda service fails the invocation of iteration i.  The task is retried;
\* once its retries are used up the iteration fails, which fails the Map state
\* and stops its other iterations, and the Map state's own Retry runs it again
\* from the start.
IterationFault(i) ==
    /\ pc = "ProcessOrgs"
    /\ i \in 1..Len(branches)
    /\ branches[i].st = "running"
    /\ faultsLeft > 0
    /\ faultsLeft' = faultsLeft - 1
    /\ IF branches[i].retries < MaxAttempts
       THEN /\ branches' = [branches EXCEPT ![i].retries = @ + 1, ![i].attempts = @ + 1]
            /\ UNCHANGED <<pc, input, retries>>
       ELSE IF retries < MaxAttempts
       THEN /\ branches' = [j \in 1..Len(branches) |->
                               [Pending EXCEPT !.attempts =
                                   branches[j].attempts + (IF j = i THEN 1 ELSE 0)]]
            /\ retries' = retries + 1
            /\ UNCHANGED <<pc, input>>
       ELSE /\ pc' = "Failed"
            /\ branches' = <<>>
            /\ retries' = 0
            /\ UNCHANGED input
    \* the invocation may have sent its request before the fault
    /\ requests' \in {requests, requests + CloudflareRequests(ItemsPath(input).items[i])}
    /\ UNCHANGED <<provisioning, output, s3, puts, clock, source, apiMenu, ticksLeft>>

\* every iteration has ended: the array of their results is the Map state's output
MapDone ==
    /\ pc = "ProcessOrgs"
    /\ MapComplete(branches)
    /\ Enter(NextOf(pc), MapOutput(branches))
    /\ retries' = 0
    /\ UNCHANGED <<provisioning, output, s3, puts, clock, source, apiMenu, requests, faultsLeft, ticksLeft>>

\* the PutObject calls an invocation on event can make at most
MaxPuts(event) ==
    IF Get(event, "batchResults").t = "arr"
    THEN 2 * Len(Get(event, "batchResults").items)
    ELSE 0

\* the handler of PrepareDataToFiles runs to its return; a handler that throws
\* is an errored attempt
RunPrepareDataToFiles ==
    /\ pc = "PrepareDataToFiles"
    /\ \E startTime \in clock..(clock + 1), endTime \in clock..(clock + 1),
          failAt \in 0..MaxPuts(input) :
          /\ startTime <= endTime
          /\ ReadClock(endTime)
          /\ LET r == PrepareDataToFiles(input, startTime, endTime, failAt)
             IN  /\ s3' = ApplyPuts(s3, r.puts)
                 /\ puts' = puts \o r.puts
                 /\ IF r.result.t = "thrown"
                    THEN RetryOrFail /\ UNCHANGED output
                    ELSE /\ output' = r.result
                         /\ Enter(NextOf(pc), r.result)
                         /\ retries' = 0
    /\ UNCHANGED <<provisioning, source, apiMenu, requests, faultsLeft>>

\* the writer's invocation runs into its timeout after k of its PutObject calls:
\* those calls stand, and the attempt errored
WriterTimeout ==
    /\ pc = "PrepareDataToFiles"
    /\ faultsLeft > 0
    /\ faultsLeft' = faultsLeft - 1
    /\ \E startTime \in clock..(clock + 1), k \in 1..MaxPuts(input) :
          /\ ReadClock(startTime)
          /\ LET r == PrepareDataToFiles(input, startTime, startTime, 0)
             IN  /\ k <= Len(r.puts)
                 /\ s3' = ApplyPuts(s3, SubSeq(r.puts, 1, k))
                 /\ puts' = puts \o SubSeq(r.puts, 1, k)
    /\ RetryOrFail
    /\ UNCHANGED <<provisioning, output, source, apiMenu, requests>>

(***************************************************************************)
(* The data of a run.  providerEndpoint.ts holds one literal record with   *)
(* the orgs 155 and 148; the model lets the provider hold any list of at   *)
(* most MaxOrgs of them.                                                   *)
(***************************************************************************)
Org(id, ticker) ==
    Rec([orgId |-> Str(<<id>>),
         connectorParams |->
            Rec([exchange_id |-> Str(<<"3">>),
                 ticker_symbol |-> Str(<<ticker>>),
                 ticker_symbols |-> Str(<<"MSFT-458", ",", " NFLX-458">>),
                 key_development_list |-> Str(<<"28", ",", "74", ",", "75">>)])])

OrgPool == {Org("155", "AMZN"), Org("148", "MSFT")}

\* every list of at most n orgs
OrgLists(n) == UNION {[1..k -> OrgPool] : k \in 0..n}

\* the provider's list cut to k orgs (155, 148, 155, ...)
Roster(k) == [i \in 1..k |-> IF i % 2 = 1 THEN Org("155", "AMZN") ELSE Org("148", "MSFT")]

\* the lists a run starts from: the roster cut to at most n orgs, and a list that
\* names one org twice
RunLists(n) == {Roster(k) : k \in 0..n} \cup {<<Org("155", "AMZN"), Org("155", "AMZN")>>}

\* the record with the given secrets and orgs; an undefined one is left out
ProviderRecord(secrets, orgs) ==
    Wire(Rec([providerId |-> Str(<<"provider-1">>),
              resourceType |-> Str(<<"activity-center">>),
              providerName |-> Str(<<"Provider 1">>),
              externalId |-> Str(<<"schedule-activity-center-import-test">>),
              secrets |-> secrets,
              connectorParams |->
                 Rec([snowflake_schema |-> Str(<<"XPRESSFEED">>),
                      snowflake_warehouse |-> Str(<<"XF_READER_DILIGENTCORP_WH">>),
                      snowflake_account |-> Str(<<"idb71831", ".", "us-east-1">>),
                      snowflake_database |-> Str(<<"MI_XPRESSCLOUD">>),
                      key_development_list |-> Str(<<"28", ",", "74", ",", "75">>)]),
              orgs |-> orgs]))

Encrypted == Str(<<"****************************">>)

Sources(n) == {ProviderRecord(Encrypted, Arr(orgs)) : orgs \in RunLists(n)}

FanSource ==
    ProviderRecord(Encrypted, Arr([i \in 1..FanOrgs |-> Org(ToString(i), "AMZN")]))

\* {"a": {"b": 1, "c": 2}, "d": 3}
Radar ==
    Obj(<< <<<<"a">>, Obj(<< <<<<"b">>, Num(1)>>, <<<<"c">>, Num(2)>> >>)>>,
           <<<<"d">>, Num(3)>> >>)

\* {"success": false, "errors": [{"code": 10000, "message": "Authentication error"}]}
RadarError ==
    Obj(<< <<<<"success">>, Bool(FALSE)>>,
           <<<<"errors">>,
             Arr(<< Obj(<< <<<<"code">>, Num(10000)>>,
                           <<<<"message">>, Str(<<"Authentication error">>)>> >>) >>)>> >>)

Answers ==
    {[kind |-> "json", status |-> 200, data |-> Radar],
     [kind |-> "json", status |-> 403, data |-> RadarError],
     [kind |-> "garbage", status |-> 502],
     [kind |-> "neterr"]}

\* the answers of a run: the API answers, or the connection fails
RunAnswers == {[kind |-> "json", status |-> 200, data |-> Radar], [kind |-> "neterr"]}

FanAnswers == {[kind |-> "json", status |-> 200, data |-> Radar]}

(***************************************************************************)
(* Spec: one execution of the state machine.                               *)
(***************************************************************************)
InitRun ==
    /\ pc = StartAt
    /\ output = Undef
    /\ retries = 0
    /\ branches = <<>>
    /\ s3 = <<>>
    /\ puts = <<>>
    /\ clock = 0
    /\ requests = 0
    /\ NotProvisioning

Init ==
    /\ InitRun
    /\ source \in Sources(MaxOrgs)
    /\ input = source
    /\ apiMenu = RunAnswers
    /\ faultsLeft = MaxFaults
    /\ ticksLeft = MaxTicks

Next ==
    \/ RunProviderEndpoint
    \/ RunDecryptionHandler
    \/ RunExtractOrgs
    \/ TaskFault
    \/ \E i \in 1..Len(branches) : StartIteration(i)
    \/ \E i \in 1..Len(branches) : CompleteIteration(i)
    \/ \E i \in 1..Len(branches) : IterationFault(i)
    \/ MapDone
    \/ RunPrepareDataToFiles
    \/ WriterTimeout

Spec == Init /\ [][Next]_vars

(***************************************************************************)
(* SpecFan: an execution over FanOrgs orgs, more than MaxConcurrency, in   *)
(* which the API answers and the Lambda service does not fault.            *)
(***************************************************************************)
InitFan ==
    /\ InitRun
    /\ source = FanSource
    /\ input = source
    /\ apiMenu = FanAnswers
    /\ faultsLeft = 0
    /\ ticksLeft = 0

NextFan ==
    \/ RunProviderEndpoint
    \/ RunDecryptionHandler
    \/ RunExtractOrgs
    \/ \E i \in 1..Len(branches) : StartIteration(i)
    \/ \E i \in 1..Len(branches) : CompleteIteration(i)
    \/ MapDone
    \/ RunPrepareDataToFiles

SpecFan == InitFan /\ [][NextFan]_vars

(***************************************************************************)
(* SpecRetry: an execution over one org in which the Lambda service may    *)
(* fail up to RetryFaults invocations, enough to use up the retries of a   *)
(* state.                                                                  *)
(***************************************************************************)
InitRetry ==
    /\ InitRun
    /\ source = ProviderRecord(Encrypted, Arr(Roster(1)))
    /\ input = source
    /\ apiMenu = FanAnswers
    /\ faultsLeft = RetryFaults
    /\ ticksLeft = 0

SpecRetry == InitRetry /\ [][Next]_vars

(***************************************************************************)
(* SpecStage: one handler invoked once on an event drawn from StageEvents, *)
(* well-formed or not.                                                     *)
(***************************************************************************)
SecretsVariants == {Encrypted, Undef, Null}

OrgsVariants ==
    {Arr(l) : l \in OrgLists(MaxOrgs)}
        \cup {Undef, Null, Str(<<"155">>), Num(2), Org("155", "AMZN"), Arr(<<Null>>)}

ProviderBodies == {ProviderRecord(s, o) : s \in SecretsVariants, o \in OrgsVariants}

FetchEvents ==
    {Wire(ExtractedOrg(o)) : o \in OrgPool} \cup {Rec([id |-> Str(<<"155">>)])}

BatchEntries ==
    {CloudflareFetchHandler(ExtractedOrg(Org("155", "AMZN")),
                            [kind |-> "json", status |-> 200, data |-> Radar], 0),
     CloudflareFetchHandler(ExtractedOrg(Org("148", "MSFT")),
                            [kind |-> "json", status |-> 403, data |-> RadarError], 0),
     CloudflareFetchHandler(ExtractedOrg(Org("148", "MSFT")), [kind |-> "neterr"], 0)}

BatchEvents ==
    {Parameters(Arr(l)) : l \in UNION {[1..k -> BatchEntries] : k \in 0..MaxOrgs}}
        \cup {Parameters(Str(<<"155">>)), Parameters(Arr(<<Null>>))}

StageEvents ==
    {Success(b) : b \in ProviderBodies}
        \cup {Null, Rec(<<>>), Failure("Failed to decrypt data", TypeErrorMsg, 0)}
        \cup FetchEvents
        \cup BatchEvents

InitStage ==
    /\ pc = "Invoke"
    /\ input \in StageEvents
    /\ output = Undef
    /\ retries = 0
    /\ branches = <<>>
    /\ s3 = <<>>
    /\ puts = <<>>
    /\ clock = 0
    /\ requests = 0
    /\ NotProvisioning
    /\ source = ProviderRecord(Encrypted, Arr(Roster(2)))
    /\ apiMenu = Answers
    /\ faultsLeft = 0
    /\ ticksLeft = MaxTicks

CallProviderEndpoint ==
    /\ pc = "Invoke"
    /\ pc' = "ProviderEndpoint.returned"
    /\ output' = ProviderEndpoint(input, source)
    /\ UNCHANGED <<provisioning, input, retries, branches, s3, puts, clock, source, apiMenu, requests,
                   faultsLeft, ticksLeft>>

CallDecryptionHandler ==
    /\ pc = "Invoke"
    /\ pc' = "DecryptionHandler.returned"
    /\ \E now \in clock..(clock + 1) :
          /\ ReadClock(now)
          /\ output' = DecryptionHandler(input, now)
          /\ Get(output', "statusCode") = Num(200) => now = clock
    /\ UNCHANGED <<provisioning, input, retries, branches, s3, puts, source, apiMenu, requests, faultsLeft>>

CallExtractOrgs ==
    /\ pc = "Invoke"
    /\ pc' = "ExtractOrgs.returned"
    /\ \E now \in clock..(clock + 1) :
          /\ ReadClock(now)
          /\ output' = ExtractOrgs(input, now)
          /\ Get(output', "statusCode") = Num(200) => now = clock
    /\ UNCHANGED <<provisioning, input, retries, branches, s3, puts, source, apiMenu, requests, faultsLeft>>

\* apiMenu is left holding the answer the API gave
CallCloudflareFetchHandler ==
    /\ pc = "Invoke"
    /\ pc' = "CloudflareFetchHandler.returned"
    /\ \E answer \in apiMenu, now \in clock..(clock + 1) :
          /\ ReadClock(now)
          /\ output' = CloudflareFetchHandler(input, answer, now)
          /\ apiMenu' = {answer}
    /\ requests' = requests + CloudflareRequests(input)
    /\ UNCHANGED <<provisioning, input, retries, branches, s3, puts, source, faultsLeft>>

CallPrepareDataToFiles ==
    /\ pc = "Invoke"
    /\ pc' = "PrepareDataToFiles.returned"
    /\ \E startTime \in clock..(clock + 1), endTime \in clock..(clock + 1),
          failAt \in 0..MaxPuts(input) :
          /\ startTime <= endTime
          /\ ReadClock(endTime)
          /\ LET r == PrepareDataToFiles(input, startTime, endTime, failAt)
             IN  /\ output' = r.result
                 /\ s3' = ApplyPuts(s3, r.puts)
                 /\ puts' = puts \o r.puts
    /\ UNCHANGED <<provisioning, input, retries, branches, source, apiMenu, requests, faultsLeft>>

NextStage ==
    \/ CallProviderEndpoint
    \/ CallDecryptionHandler
    \/ CallExtractOrgs
    \/ CallCloudflareFetchHandler
    \/ CallPrepareDataToFiles

SpecStage == InitStage /\ [][NextStage]_vars

(***************************************************************************)
(* Properties.                                                             *)
(***************************************************************************)
StatusOf(r) == Get(r, "statusCode")
BodyOf(r) == Get(r, "body")

\* the batch the Map state produced in this execution
Batch == MapOutput(branches)

\* C1: whenever a batch holds an entry whose status code is not 200, the writer
\* returns a failure and has written no object of the batch.
C1_BatchAllOrNothing ==
    (/\ pc = "Succeeded"
     /\ \E i \in 1..Len(branches) : StatusOf(branches[i].out) # Num(200))
        => /\ StatusOf(output) = Num(500)
           /\ puts = <<>>
           /\ s3 = <<>>

\* C2: the writer is never invoked with a batch that holds the outcome of a
\* failed fetch beside the outcome of a successful one.
C2_NoPartialBatch ==
    pc = "PrepareDataToFiles"
        => ~ \E i, j \in 1..Len(Batch.items) :
                /\ StatusOf(Batch.items[i]) = Num(500)
                /\ StatusOf(Batch.items[j]) = Num(200)

\* a list of entity configurations
IsEntityList(v) == v.t = "arr" /\ \A i \in 1..Len(v.items) : v.items[i].t = "rec"

\* C3: on a record whose orgs list has N entities the extractor returns success
\* with N extracted entities in input order, each with the id and the
\* parameters of the entity at its index.
C3_ExtractorKeepsEntities ==
    (pc = "ExtractOrgs.returned" /\ IsEntityList(Get(BodyOf(input), "orgs")))
        => LET orgs == Get(BodyOf(input), "orgs").items
               extracted == Get(BodyOf(output), "orgIds")
           IN  /\ StatusOf(output) = Num(200)
               /\ extracted.t = "arr"
               /\ Len(extracted.items) = Len(orgs)
               /\ \A i \in 1..Len(orgs) :
                     /\ Get(extracted.items[i], "id") = Get(orgs[i], "orgId")
                     /\ Get(extracted.items[i], "connectorParams")
                            = Get(orgs[i], "connectorParams")

C3_Witness ==
    /\ pc = "ExtractOrgs.returned"
    /\ IsEntityList(Get(BodyOf(input), "orgs"))
    /\ Len(Get(BodyOf(input), "orgs").items) = 2
    /\ Get(Get(BodyOf(output), "orgIds").items[1], "id") = Str(<<"155">>)
    /\ Get(Get(BodyOf(output), "orgIds").items[2], "id") = Str(<<"148">>)

\* C4: the batch handed to the writer, under the field batchResults, has one
\* entry per extracted entity, and entry i is the result of the iteration that
\* received extracted entity i, whatever the order in which iterations ended.
C4_FanOutKeepsOrder ==
    pc = "PrepareDataToFiles"
        => LET batch == Get(input, "batchResults")
               extracted == ItemsPath(output)
           IN  /\ batch.t = "arr"
               /\ extracted.t = "arr"
               /\ Len(batch.items) = Len(extracted.items)
               /\ \A i \in 1..Len(batch.items) :
                     \/ /\ StatusOf(batch.items[i]) = Num(200)
                        /\ Get(BodyOf(batch.items[i]), "orgId")
                               = Get(extracted.items[i], "id")
                        /\ Get(BodyOf(batch.items[i]), "connectorParams")
                               = Get(extracted.items[i], "connectorParams")
                     \/ /\ StatusOf(batch.items[i]) = Num(500)
                        /\ Get(BodyOf(batch.items[i]), "error")
                               = Str(<<"Failed to fetch Cloudflare data">>)

\* the second iteration ended before the first, and the batch is in input order
C4_Witness ==
    /\ pc = "PrepareDataToFiles"
    /\ Len(Get(input, "batchResults").items) = 2
    /\ Get(BodyOf(Get(input, "batchResults").items[1]), "orgId") = Str(<<"155">>)
    /\ Get(BodyOf(Get(input, "batchResults").items[1]), "timestamp") = Ts(1)
    /\ Get(BodyOf(Get(input, "batchResults").items[2]), "orgId") = Str(<<"148">>)
    /\ Get(BodyOf(Get(input, "batchResults").items[2]), "timestamp") = Ts(0)

\* C5: at most 10 fetcher invocations are outstanding at any time.
C5_BoundedConcurrency == Cardinality(Running(branches)) <= 10

\* ten invocations are outstanding and an eleventh entity waits
C5_Witness ==
    /\ Cardinality(Running(branches)) = 10
    /\ \E i \in 1..Len(branches) : branches[i].st = "pending"

\* C6: while the writer is the current state no fetcher invocation is
\* outstanding: every iteration of the batch has ended.
C6_WriterAfterFanOut ==
    pc = "PrepareDataToFiles"
        => /\ Running(branches) = {}
           /\ Len(branches) = Len(ItemsPath(output).items)
           /\ \A i \in 1..Len(branches) : branches[i].st = "done"

C6_Witness ==
    /\ pc = "PrepareDataToFiles"
    /\ Len(branches) = 2
    /\ \A i \in 1..Len(branches) : branches[i].st = "done"

StageOrder ==
    <<"ProviderEndpoint", "DecryptionHandler", "ExtractOrgs", "ProcessOrgs",
      "PrepareDataToFiles">>

\* C7: an execution starts at ProviderEndpoint, every change of state goes from
\* a stage to the stage after it in StageOrder (or ends the execution as failed),
\* and the execution succeeds only out of PrepareDataToFiles.
C7_LinearStages ==
    /\ pc = StageOrder[1]
    /\ [][pc' # pc =>
             \/ \E k \in 1..(Len(StageOrder) - 1) :
                   pc = StageOrder[k] /\ pc' = StageOrder[k + 1]
             \/ pc = StageOrder[Len(StageOrder)] /\ pc' = "Succeeded"
             \/ \E k \in 1..Len(StageOrder) : pc = StageOrder[k] /\ pc' = "Failed"]_vars

\* a run went through every stage: the writer has returned and objects are stored
C7_Witness ==
    /\ pc = "Succeeded"
    /\ StatusOf(output) = Num(200)
    /\ Len(branches) = 2
    /\ Len(puts) = 4

\* C8: a successful result of the decryptor has the fields of its input record,
\* with the values of the input, except for secrets.
C8_DecryptorFrame ==
    (pc = "DecryptionHandler.returned" /\ StatusOf(output) = Num(200))
        => LET in == BodyOf(input)
               out == BodyOf(output)
           IN  /\ in.t = "rec"
               /\ out.t = "rec"
               /\ (DOMAIN out.o) \ {"secrets"} = (DOMAIN in.o) \ {"secrets"}
               /\ \A f \in (DOMAIN in.o) \ {"secrets"} : out.o[f] = in.o[f]

C8_Witness ==
    /\ pc = "DecryptionHandler.returned"
    /\ StatusOf(output) = Num(200)
    /\ Get(BodyOf(input), "secrets") = Encrypted
    /\ Get(BodyOf(output), "secrets") = Str(<<"decrypted-secret-data">>)
    /\ Get(BodyOf(output), "connectorParams") = Get(BodyOf(input), "connectorParams")
    /\ Get(BodyOf(output), "orgs") = Arr(Roster(2))

\* C9: the decryptor never returns success for a record whose secret is
\* absent or is no decryptable value.
C9_DecryptionFailed ==
    (pc = "DecryptionHandler.returned" /\ Get(BodyOf(input), "secrets").t # "str")
        => StatusOf(output) # Num(200)

\* C10: on an event whose orgs is absent or is no list the extractor returns a
\* failure result that carries no extracted list.
C10_ExtractorRejectsMalformed ==
    (pc = "ExtractOrgs.returned" /\ Get(BodyOf(input), "orgs").t # "arr")
        => /\ StatusOf(output) = Num(500)
           /\ Get(BodyOf(output), "error") = Str(<<"Failed to extract organization data">>)
           /\ Get(BodyOf(output), "message").t = "str"
           /\ Get(BodyOf(output), "orgIds") = Undef

\* the orgs of the record is a number
C10_Witness ==
    /\ pc = "ExtractOrgs.returned"
    /\ Get(BodyOf(input), "orgs") = Num(2)
    /\ StatusOf(output) = Num(500)

\* the answer the external API gave to the invocation that returned
Answer == CHOOSE a \in apiMenu : TRUE

\* the invocation sent its request and the API answered with a status outside 2xx
AnsweredNon2xx ==
    /\ pc = "CloudflareFetchHandler.returned"
    /\ requests = 1
    /\ Answer.kind # "neterr"
    /\ Answer.status \notin 200..299

\* C11: the fetch handler never returns status 200 when the external API
\* answered its request with a status outside 2xx.
C11_Non2xxIsFailure == AnsweredNon2xx => StatusOf(output) # Num(200)

\* the result is a failure result that carries no fetched data
IsFetchFailure(r) ==
    /\ StatusOf(r) = Num(500)
    /\ Get(BodyOf(r), "error") = Str(<<"Failed to fetch Cloudflare data">>)
    /\ Get(BodyOf(r), "message").t = "str"
    /\ Get(BodyOf(r), "radarData") = Undef
    /\ Get(BodyOf(r), "orgId") = Undef

MessageOf(r) == Get(BodyOf(r), "message")

\* C12: when the body of the answer is no JSON, or the request ends in a
\* transport error, the fetch handler returns a failure result without fetched
\* data; the message of the one case starts with "Failed to parse response: ",
\* that of the other with "Request failed: ", and the handler gives different
\* messages for the two on the same event.
C12_ParseAndTransportFailures ==
    (pc = "CloudflareFetchHandler.returned" /\ requests = 1)
        => /\ Answer.kind = "garbage"
                => /\ IsFetchFailure(output)
                   /\ MessageOf(output).s[1] = "Failed to parse response: "
                   /\ MessageOf(output) #
                        MessageOf(CloudflareFetchHandler(input, [kind |-> "neterr"], clock))
           /\ Answer.kind = "neterr"
                => /\ IsFetchFailure(output)
                   /\ MessageOf(output).s[1] = "Request failed: "
                   /\ MessageOf(output) #
                        MessageOf(CloudflareFetchHandler(input,
                                     [kind |-> "garbage", status |-> 502], clock))

\* the API answered with a body that is no JSON, and the handler reported it
C12_Witness ==
    /\ pc = "CloudflareFetchHandler.returned"
    /\ requests = 1
    /\ Answer.kind = "garbage"
    /\ StatusOf(output) = Num(500)
    /\ MessageOf(output) = Str(<<"Failed to parse response: ", "Unexpected token">>)

\* C13: one invocation of the fetch handler sends at most one request to the
\* external API, whatever the answer to it.
C13_AtMostOneRequest == pc = "CloudflareFetchHandler.returned" => requests <= 1

\* the one request failed and the handler returned without sending another
C13_Witness ==
    /\ pc = "CloudflareFetchHandler.returned"
    /\ Answer.kind = "neterr"
    /\ StatusOf(output) = Num(500)
    /\ requests = 1

\* C14: a failure result of the fetch handler never becomes the output of a
\* completed Map iteration: the iteration is retried or the execution fails.
C14_FetchFailureRetried ==
    \A i \in 1..Len(branches) :
        branches[i].st = "done" => StatusOf(branches[i].out) = Num(200)

StateNames == TaskStates \cup {"ProcessOrgs", "CloudflareFetchHandler"}

\* C15 as claimed: every state has the one retry policy, no state is attempted
\* more than 3 times, and the fetch of no item is attempted more than 3 times.
C15_ThreeAttempts ==
    /\ \A st \in StateNames : RetryOf(st) = RetryOf(StartAt)
    /\ pc \in TaskStates \cup {"ProcessOrgs"} => retries + 1 <= 3
    /\ \A i \in 1..Len(branches) : branches[i].attempts <= 3

\* an invocation errored in this step
Faulted == faultsLeft' = faultsLeft - 1

\* C15 as amended: every state has the one retry policy (interval 2 s, backoff
\* rate 2, any error, 3 retries); a state is attempted at most 1 + 3 times; the
\* fetch of an item is attempted at most 1 + 3 times in each attempt of the Map
\* state, so at most 16 times in all; and when the last allowed attempt of a
\* state errors, the execution ends as failed.
C15_RetryBudget ==
    [][/\ \A st \in StateNames : RetryOf(st) = RetryOf(StartAt)
       /\ pc' \in TaskStates \cup {"ProcessOrgs"} => retries' + 1 <= 1 + MaxAttempts
       /\ \A i \in 1..Len(branches') :
             /\ branches'[i].retries <= MaxAttempts
             /\ branches'[i].attempts <= (1 + MaxAttempts) * (1 + MaxAttempts)
             /\ pc' = "ProcessOrgs"
                   => branches'[i].attempts <= (retries' + 1) * (1 + MaxAttempts)
       /\ (pc \in TaskStates /\ retries = MaxAttempts /\ Faulted) => pc' = "Failed"
       /\ (/\ pc = "ProcessOrgs"
           /\ retries = MaxAttempts
           /\ Faulted
           /\ \A i \in Running(branches) : branches[i].retries = MaxAttempts)
              => pc' = "Failed"
      ]_vars

\* the fetch of an item is in its fifth attempt, in the second attempt of the Map state
C15_Witness ==
    /\ pc = "ProcessOrgs"
    /\ retries = 1
    /\ \E i \in 1..Len(branches) :
          branches[i].st = "running" /\ branches[i].attempts = 1 + MaxAttempts

\* a status 200 result with a payload, or a status 500 result whose body has a
\* message and a timestamp
IsTaggedResult(r) ==
    \/ StatusOf(r) = Num(200) /\ ~IsNullish(BodyOf(r))
    \/ /\ StatusOf(r) = Num(500)
       /\ Get(BodyOf(r), "message").t = "str"
       /\ Get(BodyOf(r), "timestamp").t = "str"

\* C16: whatever its event, a handler that was invoked returns a tagged result;
\* its invocation never ends in a thrown error.
C16_TaggedResults == pc # "Invoke" => IsTaggedResult(output)

\* r is a failure result of a handler
IsFailureResult(r) == StatusOf(r) = Num(500)

\* C17: an execution in which a handler returned a failure result does not end
\* as succeeded, and no state is entered with a failure result, or with a batch
\* that holds one, as its input.
C17_FailureSurfaces ==
    /\ pc = "Succeeded"
          => /\ ~IsFailureResult(output)
             /\ \A i \in 1..Len(branches) : ~IsFailureResult(branches[i].out)
    /\ pc \in {"DecryptionHandler", "ExtractOrgs", "ProcessOrgs"} => ~IsFailureResult(input)
    /\ (pc = "PrepareDataToFiles" /\ Get(input, "batchResults").t = "arr")
          => \A i \in 1..Len(Get(input, "batchResults").items) :
                ~IsFailureResult(Get(input, "batchResults").items[i])

\* the two objects of the data of a batch entry are in the bucket under the
\* keys made of its orgId and timestamp ts
HoldsObjectsOf(data, ts) ==
    /\ ObjectKey(data, ts, "json") \in DOMAIN s3
    /\ s3[ObjectKey(data, ts, "json")].Body = JSONStringify(data)
    /\ ObjectKey(data, ts, "csv") \in DOMAIN s3
    /\ s3[ObjectKey(data, ts, "csv")].Body = [t |-> "text", csv |-> ConvertToCSV(data)]

\* C18: when the writer has returned success, the bucket holds for every entry
\* of the batch, under some timestamp, a data.json object with the JSON text of
\* the entry's data and a data.csv object with its CSV text.
C18_ObjectsOfEveryResult ==
    (pc = "Succeeded" /\ StatusOf(output) = Num(200))
        => \A i \in 1..Len(branches) :
              \E n \in 0..clock : HoldsObjectsOf(BodyOf(branches[i].out), Ts(n))

\* C19: when the writer has returned success, the two objects of every entry
\* are under the keys made of the entry's orgId and the timestamp its data
\* carries.
C19_KeyedByOwnTimestamp ==
    (pc = "Succeeded" /\ StatusOf(output) = Num(200))
        => \A i \in 1..Len(branches) :
              LET data == BodyOf(branches[i].out)
              IN  /\ ObjectKey(data, Get(data, "timestamp"), "json") \in DOMAIN s3
                  /\ ObjectKey(data, Get(data, "timestamp"), "csv") \in DOMAIN s3

\* every entry of the batch of the event is a success result with its data
AllFetched(event) ==
    /\ Get(event, "batchResults").t = "arr"
    /\ \A i \in 1..Len(Get(event, "batchResults").items) :
          LET result == Get(event, "batchResults").items[i]
          IN  /\ StatusOf(result) = Num(200)
              /\ ~IsNullish(Get(BodyOf(result), "connectorParams"))

\* C20: when a PutObject call fails on a batch of success results (fewer calls
\* succeeded than two per entry), the writer returns a failure result, the calls
\* that succeeded are the calls before the failed one and none after it, and
\* the bucket holds what they wrote.
C20_WriteFailureStopsBatch ==
    (/\ pc = "PrepareDataToFiles.returned"
     /\ AllFetched(input)
     /\ Len(puts) < MaxPuts(input))
        => /\ StatusOf(output) = Num(500)
           /\ Get(BodyOf(output), "error") = Str(<<"Failed to process data">>)
           /\ MessageOf(output) = Str(S3ErrorMsg)
           /\ \E st \in 0..clock :
                 puts = SubSeq(PrepareDataToFiles(input, st, st, 0).puts, 1, Len(puts))
           /\ s3 = ApplyPuts(<<>>, puts)

\* the data.csv call of the second entry failed after three calls that succeeded
C20_Witness ==
    /\ pc = "PrepareDataToFiles.returned"
    /\ AllFetched(input)
    /\ MaxPuts(input) = 4
    /\ Len(puts) = 3
    /\ DOMAIN s3 = {puts[k].Key : k \in 1..3}
    /\ StatusOf(output) = Num(500)

(***************************************************************************)
(* SpecCsv: convertToCSV applied once to the data of a fetch whose         *)
(* radarData is drawn from Payloads: objects of up to two fields, nested   *)
(* up to three levels, with arrays of up to MaxElems elements, null and    *)
(* empty values, names that hold a dot, and strings that hold a comma or   *)
(* a newline.                                                              *)
(***************************************************************************)
\* every list of at most n elements of set
ListsOf(set, n) == UNION {[1..k -> set] : k \in 0..n}

\* the object with the given names and values, in this order
ObjOf(names, values) == Obj([i \in 1..Len(names) |-> <<names[i], values[i]>>])

InnerLeaves == {Num(1), Num(2), Null, Str(<<"x">>)}

InnerNames == {<< <<"b">> >>, << <<"c">> >>, << <<"b">>, <<"c">> >>}

\* {}, and the objects over b and c
InnerObjects ==
    {Obj(<<>>)} \cup
    UNION {{ObjOf(names, values) : values \in [1..Len(names) -> InnerLeaves]} :
              names \in InnerNames}

InnerArrays ==
    {Arr(l) : l \in ListsOf({Num(1), Null, ObjOf(<< <<"b">> >>, <<Num(1)>>)}, MaxElems)}

TopLeaves ==
    {Num(3), Null, Bool(FALSE), Str(<<"x">>),
     Str(<<"x", ",", "y">>), Str(<<"x", "\n", "y">>)}

TopValues == TopLeaves \cup InnerObjects \cup InnerArrays

TopNames ==
    {<< <<"a">> >>, << <<"a", ".", "b">> >>, << <<"a", ",", "b">> >>, << <<"a", "\n", "b">> >>,
     << <<"a">>, <<"d">> >>, << <<"d">>, <<"a">> >>,
     << <<"a", ".", "b">>, <<"a">> >>, << <<"a">>, <<"a", ".", "b">> >>}

Payloads ==
    {Obj(<<>>), Null, Num(3), Str(<<"x">>)} \cup InnerArrays \cup
    UNION {{ObjOf(names, values) : values \in [1..Len(names) -> TopValues]} :
              names \in TopNames}

\* the data of a fetch of org 155 with the given radarData
FetchedData(payload) ==
    Rec([orgId |-> Str(<<"155">>),
         connectorParams |-> Get(ExtractedOrg(Org("155", "AMZN")), "connectorParams"),
         radarData |-> payload,
         timestamp |-> Ts(0)])

InitCsv ==
    /\ pc = "Convert"
    /\ input \in {FetchedData(payload) : payload \in Payloads}
    /\ output = Undef
    /\ retries = 0
    /\ branches = <<>>
    /\ s3 = <<>>
    /\ puts = <<>>
    /\ clock = 0
    /\ requests = 0
    /\ NotProvisioning
    /\ source = ProviderRecord(Encrypted, Arr(Roster(1)))
    /\ apiMenu = FanAnswers
    /\ faultsLeft = 0
    /\ ticksLeft = 0

CallConvertToCSV ==
    /\ pc = "Convert"
    /\ pc' = "convertToCSV.returned"
    /\ output' = [t |-> "text", csv |-> ConvertToCSV(input)]
    /\ UNCHANGED <<provisioning, input, retries, branches, s3, puts, clock, source, apiMenu, requests,
                   faultsLeft, ticksLeft>>

NextCsv == CallConvertToCSV

SpecCsv == InitCsv /\ [][NextCsv]_vars

\* the lines of a text, and the comma-separated fields of a line
Lines(text) == Split(text, "\n")
Fields(line) == Split(line, ",")

Converted == pc = "convertToCSV.returned"

\* C21: for the payload {"a": {"b": 1, "c": 2}, "d": 3} convertToCSV returns the
\* header line a.b,a.c,d and the data line 1,2,3.
C21_Example ==
    (Converted /\ Get(input, "radarData") = Radar)
        => output.csv = <<"a", ".", "b", ",", "a", ".", "c", ",", "d", "\n",
                          "1", ",", "2", ",", "3">>

C21_Witness ==
    /\ Converted
    /\ Get(input, "radarData") = Radar
    /\ Lines(output.csv)[2] = <<"1", ",", "2", ",", "3">>

RECURSIVE SeparatorFree(_)
SeparatorFree(v) ==
    CASE v.t = "str" -> \A i \in 1..Len(v.s) : v.s[i] \notin {",", "\n"}
      [] v.t = "arr" -> \A i \in 1..Len(v.items) : SeparatorFree(v.items[i])
      [] v.t = "obj" ->
            \A i \in 1..Len(v.fields) :
                /\ SeparatorFree(Str(v.fields[i][1]))
                /\ SeparatorFree(v.fields[i][2])
      [] OTHER -> TRUE

RECURSIVE LeavesOf(_, _)
RECURSIVE LeavesFrom(_, _, _)
LeavesOf(v, prefix) ==
    CASE v.t = "obj" -> LeavesFrom(v.fields, 1, prefix)
      [] v.t = "arr" ->
            LeavesFrom([i \in 1..Len(v.items) |-> <<<<ToString(i - 1)>>, v.items[i]>>],
                       1, prefix)
      [] OTHER -> <<>>

LeavesFrom(entries, k, prefix) ==
    IF k > Len(entries) THEN <<>>
    ELSE LET path == IF prefix = <<>> THEN entries[k][1]
                     ELSE prefix \o <<".">> \o entries[k][1]
             val == entries[k][2]
         IN  (IF val.t \in {"obj", "arr"} THEN LeavesOf(val, path) ELSE <<<<path, val>>>>)
             \o LeavesFrom(entries, k + 1, prefix)

\* a leaf as the data line shows it: null as the empty string
Rendered(v) == IF IsNullish(v) THEN <<>> ELSE ToStr(v)

RECURSIVE ArrayFree(_)
ArrayFree(v) ==
    CASE v.t = "arr" -> FALSE
      [] v.t = "obj" -> \A i \in 1..Len(v.fields) : ArrayFree(v.fields[i][2])
      [] OTHER -> TRUE

\* the leaf is shown in the column that is named by its path
InItsColumn(leaf, text) ==
    \E k \in 1..Len(Fields(Lines(text)[1])) :
        /\ Fields(Lines(text)[1])[k] = leaf[1]
        /\ k <= Len(Fields(Lines(text)[2]))
        /\ Fields(Lines(text)[2])[k] = Rendered(leaf[2])

\* C23: for every object payload without arrays (and without a comma or
\* newline in its names and strings, so that a field of a line is a column),
\* every leaf is shown in the column named by the dot-joined names on its
\* path, and there are as many columns as leaves.
C23_LeavesUnderTheirPaths ==
    (/\ Converted
     /\ Get(input, "radarData").t = "obj"
     /\ ArrayFree(Get(input, "radarData"))
     /\ SeparatorFree(Get(input, "radarData")))
        => LET leaves == LeavesOf(Get(input, "radarData"), <<>>)
           IN  /\ \A j \in 1..Len(leaves) : InItsColumn(leaves[j], output.csv)
               /\ leaves # <<>> => Len(Fields(Lines(output.csv)[1])) = Len(leaves)

\* C25 as claimed: for every payload the text has exactly two lines.
C25_TwoLines == Converted => Len(Lines(output.csv)) = 2

RECURSIVE NewlineFree(_)
NewlineFree(v) ==
    CASE v.t = "str" -> \A i \in 1..Len(v.s) : v.s[i] # "\n"
      [] v.t = "arr" -> \A i \in 1..Len(v.items) : NewlineFree(v.items[i])
      [] v.t = "obj" ->
            \A i \in 1..Len(v.fields) :
                /\ NewlineFree(Str(v.fields[i][1]))
                /\ NewlineFree(v.fields[i][2])
      [] OTHER -> TRUE

\* C25 as amended: for every payload whose field names and string values hold
\* no newline, the text has exactly two lines, the header line and the data line.
C25_TwoLinesUnlessNewline ==
    (Converted /\ NewlineFree(Get(input, "radarData")))
        => /\ Len(Lines(output.csv)) = 2
           /\ Lines(output.csv)[1] = JoinStrings(Headers(input), 1)

\* a payload with a comma in a string and an empty array: two lines
C25_Witness ==
    /\ Converted
    /\ Get(input, "radarData") =
          ObjOf(<< <<"a">>, <<"d">> >>, <<Str(<<"x", ",", "y">>), Arr(<<>>)>>)
    /\ output.csv = <<"a", "\n", "x", ",", "y">>

\* the leaves of a value that lie in an array
RECURSIVE ArrayLeavesOf(_, _)
RECURSIVE ArrayLeavesFrom(_, _, _)
ArrayLeavesOf(v, prefix) ==
    CASE v.t = "arr" -> LeavesOf(v, prefix)
      [] v.t = "obj" -> ArrayLeavesFrom(v.fields, 1, prefix)
      [] OTHER -> <<>>

ArrayLeavesFrom(entries, k, prefix) ==
    IF k > Len(entries) THEN <<>>
    ELSE ArrayLeavesOf(entries[k][2],
                       IF prefix = <<>> THEN entries[k][1]
                       ELSE prefix \o <<".">> \o entries[k][1])
         \o ArrayLeavesFrom(entries, k + 1, prefix)

\* C26: for every payload (without a comma or newline in its names and
\* strings), every element of an array at path p is shown in a column named
\* p.<index>, and every field of an element that is an object in a column
\* named p.<index>.<field>.
C26_ArrayColumns ==
    (Converted /\ SeparatorFree(Get(input, "radarData")))
        => LET leaves == ArrayLeavesOf(Get(input, "radarData"), <<>>)
           IN  \A j \in 1..Len(leaves) : InItsColumn(leaves[j], output.csv)

\* the entries of the batch of an event
EntriesOf(event) == Get(event, "batchResults").items

\* C27: when the writer has returned success, the data.json call of every batch
\* entry carries a document that parses to the entry's data: orgId,
\* connectorParams, radarData and timestamp as received.
C27_JsonIsTheFetchResult ==
    (pc = "PrepareDataToFiles.returned" /\ StatusOf(output) = Num(200))
        => \A i \in 1..Len(EntriesOf(input)) :
              LET data == BodyOf(EntriesOf(input)[i])
                  doc == puts[2 * i - 1].Body.parsed
              IN  /\ puts[2 * i - 1].ContentType = "application/json"
                  /\ doc = data
                  /\ \A f \in {"orgId", "connectorParams", "radarData", "timestamp"} :
                        ~IsNullish(Get(doc, f)) /\ Get(doc, f) = Get(data, f)

C27_Witness ==
    /\ pc = "PrepareDataToFiles.returned"
    /\ StatusOf(output) = Num(200)
    /\ Len(puts) = 4
    /\ Get(puts[1].Body.parsed, "radarData") = Radar
    /\ Get(puts[3].Body.parsed, "radarData") = RadarError

\* C28: when the writer has returned success, the header line of the data.csv
\* of every batch entry names orgId, timestamp, the fields of connectorParams
\* and, with the prefix radarData, every key of the payload.
C28_CsvCoversTheDocument ==
    (pc = "PrepareDataToFiles.returned" /\ StatusOf(output) = Num(200))
        => \A i \in 1..Len(EntriesOf(input)) :
              LET data == BodyOf(EntriesOf(input)[i])
                  header == Fields(Lines(puts[2 * i].Body.csv)[1])
                  Named(path) == \E k \in 1..Len(header) : header[k] = path
              IN  /\ Named(<<"orgId">>)
                  /\ Named(<<"timestamp">>)
                  /\ Named(<<"connectorParams", ".", "exchange_id">>)
                  /\ \A h \in 1..Len(Headers(data)) :
                        Named(<<"radarData", ".">> \o Headers(data)[h])

\* C29 as claimed: the writer is invoked once with the batch, and no more
\* PutObject calls succeed in an execution than two per batch entry.
C29_ConsumedOnce ==
    /\ pc = "PrepareDataToFiles" => retries = 0
    /\ Len(puts) <= 2 * Len(branches)

\* C29 as amended: the writer is invoked again only after an invocation that
\* errored, with the same batch, at most MaxAttempts times more; an invocation
\* that returned is followed by no other; so no more PutObject calls succeed
\* than two per batch entry for each invocation made.
C29_ConsumedOncePerAttempt ==
    [][/\ (pc = "PrepareDataToFiles" /\ pc' = "PrepareDataToFiles")
             => /\ Faulted
                /\ retries' = retries + 1
                /\ retries' <= MaxAttempts
                /\ input' = input
       /\ pc = "PrepareDataToFiles"
             => Len(puts') <= (retries + 1) * 2 * Len(EntriesOf(input))
       /\ pc \in {"Succeeded", "Failed"} => pc' = pc /\ puts' = puts
      ]_vars

\* the writer's first invocation timed out after its two calls, and the second
\* wrote the entry again
C29_Witness ==
    /\ pc = "Succeeded"
    /\ Len(branches) = 1
    /\ Len(puts) = 4
    /\ puts[3].Body = puts[1].Body

\* the calls a writer that fails nowhere makes for the first k objects of items
ExpectedPuts(items, k, timestamp) ==
    [j \in 1..k |->
        IF j % 2 = 1
        THEN PutJson(BodyOf(items[(j + 1) \div 2]), timestamp)
        ELSE PutCsv(BodyOf(items[j \div 2]), timestamp)]

\* the index of the first entry the loop cannot process; Len(items) + 1 if none
FirstBad(items) ==
    LET bad == {i \in 1..Len(items) :
                   \/ IsNullish(items[i])
                   \/ StatusOf(items[i]) # Num(200)
                   \/ IsNullish(Get(BodyOf(items[i]), "connectorParams"))}
    IN  IF bad = {} THEN Len(items) + 1 ELSE CHOOSE i \in bad : \A h \in bad : i <= h

\* C30: the PutObject calls that succeeded in an invocation are, in batch
\* order and data.json before data.csv, the calls of the entries before the one
\* it failed at, and the data.json call of that entry when its data.csv call
\* failed; the writer fails at the first entry it cannot process, after both
\* calls of every entry before it, unless a call failed earlier.
C30_WritesInOrderUntilFailure ==
    (pc = "PrepareDataToFiles.returned" /\ Get(input, "batchResults").t = "arr")
        => LET items == EntriesOf(input)
               f == FirstBad(items)
           IN  \E st \in 0..clock, k \in 0..(2 * Len(items)) :
                  /\ puts = ExpectedPuts(items, k, Ts(st))
                  /\ k <= 2 * (f - 1)
                  /\ StatusOf(output) = Num(200) <=> k = 2 * Len(items)
                  /\ k < 2 * (f - 1) => MessageOf(output) = Str(S3ErrorMsg)
                  /\ (k = 2 * (f - 1) /\ f <= Len(items))
                        => /\ StatusOf(output) = Num(500)
                           /\ MessageOf(output) # Str(S3ErrorMsg)

\* the writer stopped at the second entry, a failure result, after both objects
\* of the first
C30_Witness ==
    /\ pc = "PrepareDataToFiles.returned"
    /\ Get(input, "batchResults").t = "arr"
    /\ Len(EntriesOf(input)) = 2
    /\ FirstBad(EntriesOf(input)) = 2
    /\ Len(puts) = 2
    /\ MessageOf(output) = Str(<<"Invalid status code ", "500", " for record ", "2">>)

(***************************************************************************)
(* The keys of one invocation of the writer.                               *)
(***************************************************************************)
\* C31: within one invocation of prepareDataToFiles no two PutObject calls
\* use the same key, so no entry's object is overwritten by another entry of
\* the batch, also when two entries carry the same orgId.
C31_DistinctKeysPerBatch ==
    pc = "PrepareDataToFiles.returned"
        => \A i \in 1..Len(puts), j \in 1..Len(puts) :
              i # j => puts[i].Key # puts[j].Key

(***************************************************************************)
(* SpecNotify: the bucket's notification.  createS3Bucket asks S3 to       *)
(* invoke prepareDataToFiles for every object created in the bucket the    *)
(* function writes to.  The state machine invokes the writer once on a     *)
(* batch; S3 then raises one event per object written, and the Lambda      *)
(* service delivers each event to the function, again when the invocation  *)
(* errored.                                                                *)
(***************************************************************************)
\* redeliveries the Lambda service makes of an event whose invocation errored
MaxRedeliveries == 2

\* NotificationConfiguration.LambdaFunctionConfigurations of createS3Bucket
NotificationConfiguration ==
    {[LambdaFunctionArn |-> "prepareDataToFiles", Events |-> {"s3:ObjectCreated:*"}]}

\* the event S3 sends for an object created under key
S3Event(key) ==
    Rec([Records |->
            Arr(<<Rec([eventSource |-> Str(<<"aws:s3">>),
                       eventName |-> Str(<<"ObjectCreated:Put">>),
                       s3 |-> Rec([bucket |-> Rec([name |-> Str(BucketName)]),
                                   object |-> Rec([key |-> Str(key)])])])>>)])

\* the events the PutObject calls of q raise under the bucket's configuration
Raised(configuration, q) ==
    IF \E c \in configuration : "s3:ObjectCreated:*" \in c.Events
    THEN [i \in 1..Len(q) |-> [key |-> q[i].Key, deliveries |-> 0]]
    ELSE <<>>

Without(q, i) == SubSeq(q, 1, i - 1) \o SubSeq(q, i + 1, Len(q))

\* the batches the state machine hands the writer: none, one or two fetch
\* results, of two orgs or twice of one, the second a failure or not
NotifyBatches ==
    LET fetched(id, ticker, status, data) ==
            CloudflareFetchHandler(ExtractedOrg(Org(id, ticker)),
                                   [kind |-> "json", status |-> status, data |-> data], 0)
        amzn == fetched("155", "AMZN", 200, Radar)
        msft == fetched("148", "MSFT", 200, Radar)
        refused == fetched("148", "MSFT", 403, RadarError)
    IN  {Parameters(Arr(l)) :
            l \in {<<>>, <<amzn>>, <<amzn, msft>>, <<amzn, amzn>>, <<amzn, refused>>}}

\* the account after setup; configuring the notification may have failed
InitNotify ==
    /\ pc = "PrepareDataToFiles"
    /\ input \in NotifyBatches
    /\ output = Undef
    /\ retries = 0
    /\ branches = <<>>
    /\ s3 = <<>>
    /\ puts = <<>>
    /\ clock = 0
    /\ requests = 0
    /\ source = ProviderRecord(Encrypted, Arr(Roster(2)))
    /\ apiMenu = Answers
    /\ faultsLeft = 0
    /\ ticksLeft = MaxTicks
    /\ events = <<>>
    /\ calls = <<>>
    /\ \E configuration \in {{}, NotificationConfiguration} :
          cloud = [NoResources EXCEPT !.bucket = TRUE, !.permission = TRUE,
                                      !.notification = configuration]
    /\ frame = <<>>

\* the state PrepareDataToFiles of the state machine invokes the writer
InvokeFromStateMachine ==
    /\ pc = "PrepareDataToFiles"
    /\ pc' = "PrepareDataToFiles.returned"
    /\ \E startTime \in clock..(clock + 1), endTime \in clock..(clock + 1),
          failAt \in 0..MaxPuts(input) :
          /\ startTime <= endTime
          /\ ReadClock(endTime)
          /\ LET r == PrepareDataToFiles(input, startTime, endTime, failAt)
             IN  /\ output' = r.result
                 /\ s3' = ApplyPuts(s3, r.puts)
                 /\ puts' = puts \o r.puts
                 /\ events' = events \o Raised(cloud.notification, r.puts)
                 /\ calls' = Append(calls, [trigger |-> "StateMachine",
                                            wrote |-> Len(r.puts),
                                            errored |-> r.result.t = "thrown"])
    /\ UNCHANGED <<input, retries, branches, source, apiMenu, requests, faultsLeft,
                   cloud, frame>>

\* the Lambda service delivers a pending event: it invokes the function the
\* configuration names on the S3 event; an invocation that errored is
\* delivered again, MaxRedeliveries times at most
DeliverNotification(i) ==
    /\ i \in 1..Len(events)
    /\ \E c \in cloud.notification : c.LambdaFunctionArn = "prepareDataToFiles"
    /\ \E startTime \in clock..(clock + 1), endTime \in clock..(clock + 1),
          failAt \in 0..(MaxPuts(S3Event(events[i].key)) + 1) :
          /\ startTime <= endTime
          /\ ReadClock(endTime)
          /\ LET r == PrepareDataToFiles(S3Event(events[i].key), startTime, endTime,
                                         failAt)
                 again == IF r.result.t = "thrown"
                             /\ events[i].deliveries < MaxRedeliveries
                          THEN <<[events[i] EXCEPT !.deliveries = @ + 1]>>
                          ELSE <<>>
             IN  /\ s3' = ApplyPuts(s3, r.puts)
                 /\ puts' = puts \o r.puts
                 /\ events' = (IF again # <<>> THEN [events EXCEPT ![i] = again[1]]
                                ELSE Without(events, i))
                                 \o Raised(cloud.notification, r.puts)
                 /\ calls' = Append(calls, [trigger |-> "S3",
                                            wrote |-> Len(r.puts),
                                            errored |-> r.result.t = "thrown"])
    /\ UNCHANGED <<pc, input, output, retries, branches, source, apiMenu, requests,
                   faultsLeft, cloud, frame>>

NextNotify ==
    \/ InvokeFromStateMachine
    \/ \E i \in 1..Len(events) : DeliverNotification(i)

SpecNotify == InitNotify /\ [][NextNotify]_vars

\* the invocations the bucket's notification made
Notified == {k \in 1..Len(calls) : calls[k].trigger = "S3"}

\* C32: an invocation of prepareDataToFiles that the bucket's notification
\* triggered writes no object, so the objects written are those of the state
\* machine's invocation, two per batch entry at most, and the notification
\* invokes the function a bounded number of times for each of them.
C32_NotificationsWriteNothing ==
    /\ \A k \in Notified : calls[k].wrote = 0
    /\ Len(puts) <= MaxPuts(input)
    /\ Cardinality(Notified) + Len(events) <= (1 + MaxRedeliveries) * Len(puts)

\* four objects were written, every notification was delivered and delivered
\* again, and nothing is pending
C32_Witness ==
    /\ pc = "PrepareDataToFiles.returned"
    /\ Len(puts) = 4
    /\ Cardinality(Notified) = (1 + MaxRedeliveries) * 4
    /\ events = <<>>

(***************************************************************************)
(* SpecSetup: the setup script, main of createStateMachine.ts, run again   *)
(* and again on one account.  Every API command may fail; what a run       *)
(* created before it failed stays in the account.                          *)
(***************************************************************************)
\* runs of the setup script
MaxRuns == 3

\* the variables of the pipeline, which setup leaves alone
pipeline == <<input, output, retries, branches, s3, puts, clock, source, apiMenu,
              faultsLeft, ticksLeft, requests>>

ROLE_NAME == "StepFunctionLambdaRoleLatest"
STATE_MACHINE_NAME == "ProviderDataProcessingLatest"
RoleArn == "arn:aws:iam::role/" \o ROLE_NAME
StateMachineArn == "arn:aws:states:stateMachine:" \o STATE_MACHINE_NAME

\* the managed policies createLambdaRole attaches, in its order
policies ==
    <<"arn:aws:iam::aws:policy/service-role/AWSLambdaBasicExecutionRole",
      "arn:aws:iam::aws:policy/AmazonS3FullAccess",
      "arn:aws:iam::aws:policy/CloudWatchLogsFullAccess",
      "arn:aws:iam::aws:policy/service-role/AWSLambdaRole">>

\* the names of lambdaFunctions, in its order
lambdaFunctions ==
    <<"providerEndpoint", "decryptionHandler", "extractOrgs", "cloudflareFetchHandler",
      "prepareDataToFiles">>

\* an API command sent, and whether it succeeded
Call(cmd, ok) == [cmd |-> cmd, ok |-> ok]

\* what a function of the script ends with: a value returned or an error thrown
Returned(value, c, log) == [thrown |-> FALSE, value |-> value, cloud |-> c, calls |-> log]
Threw(value, c, log) == [thrown |-> TRUE, value |-> value, cloud |-> c, calls |-> log]

\* if (v): false and undefined are not truthy, an ARN is
Truthy(v) == v \notin {"false", "undefined"}

\* the ARN of the role, undefined when GetRole says NoSuchEntity, false on any
\* other error
getExistingRole(c, getRoleError) ==
    IF getRoleError THEN "false"
    ELSE IF c.role.exists THEN RoleArn
    ELSE "undefined"

\* the for loop over policies from policy i on; the failAt-th command after
\* getExistingRole is the one that fails (CreateRole is the first)
RECURSIVE AttachPolicies(_, _, _, _)
AttachPolicies(c, i, log, failAt) ==
    IF i > Len(policies)
    THEN Returned(RoleArn, c, log)
    ELSE IF failAt = i + 1
    THEN Threw("AttachRolePolicy", c, Append(log, Call("AttachRolePolicy", FALSE)))
    ELSE AttachPolicies([c EXCEPT !.role.managed = @ \cup {policies[i]}], i + 1,
                        Append(log, Call("AttachRolePolicy", TRUE)), failAt)

createLambdaRole(c, getRoleError, failAt) ==
    LET existingRoleArn == getExistingRole(c, getRoleError)
        probe == <<Call("GetRole", existingRoleArn = RoleArn)>>
    IN  IF Truthy(existingRoleArn)
        THEN Returned(existingRoleArn, c, probe)
        ELSE IF failAt = 1
        THEN \* CreateRole fails with an error other than EntityAlreadyExists
             Threw("CreateRole", c, Append(probe, Call("CreateRole", FALSE)))
        ELSE IF c.role.exists
        THEN \* EntityAlreadyExists: the ARN is read with GetRole
             IF failAt = 2
             THEN Threw("GetRole", c,
                        probe \o <<Call("CreateRole", FALSE), Call("GetRole", FALSE)>>)
             ELSE Returned(RoleArn, c,
                           probe \o <<Call("CreateRole", FALSE), Call("GetRole", TRUE)>>)
        ELSE LET created == [c EXCEPT !.role.exists = TRUE]
                 attached == AttachPolicies(created, 1,
                                Append(probe, Call("CreateRole", TRUE)), failAt)
             IN  IF attached.thrown THEN attached
                 ELSE IF failAt = Len(policies) + 2
                 THEN Threw("PutRolePolicy", attached.cloud,
                            Append(attached.calls, Call("PutRolePolicy", FALSE)))
                 ELSE Returned(RoleArn,
                               [attached.cloud EXCEPT !.role.inline = {"S3BucketAccess"}],
                               Append(attached.calls, Call("PutRolePolicy", TRUE)))

\* the for loop over lambdaFunctions from function i on; arns are the keys of
\* functionArns; the function failAt is the one whose update or creation fails
RECURSIVE createLambdaFunctionsFrom(_, _, _, _, _)
createLambdaFunctionsFrom(c, i, arns, log, failAt) ==
    IF i > Len(lambdaFunctions)
    THEN Returned(arns, c, log)
    ELSE LET name == lambdaFunctions[i]
             functionExists == name \in c.functions
             probe == Append(log, Call("GetFunction", functionExists))
         IN  IF functionExists
             THEN IF failAt = i
                  THEN Threw(arns, c, Append(probe, Call("UpdateFunctionCode", FALSE)))
                  ELSE createLambdaFunctionsFrom(c, i + 1, arns \cup {name},
                          probe \o <<Call("UpdateFunctionCode", TRUE),
                                     Call("GetFunction", TRUE)>>,
                          failAt)
             ELSE IF failAt = i
                  THEN Threw(arns, c, Append(probe, Call("CreateFunction", FALSE)))
                  ELSE createLambdaFunctionsFrom(
                          [c EXCEPT !.functions = @ \cup {name}], i + 1,
                          arns \cup {name},
                          Append(probe, Call("CreateFunction", TRUE)), failAt)

createLambdaFunctions(c, roleArn, failAt) ==
    createLambdaFunctionsFrom(c, 1, {}, <<>>, failAt)

\* true when HeadBucket succeeds; false on NotFound and on any other error
checkBucketExists(c, fails) == c.bucket /\ "HeadBucket" \notin fails

\* the commands of createS3Bucket that may be made to fail
S3Commands ==
    {"HeadBucket", "CreateBucket", "AddPermission", "PutBucketNotificationConfiguration"}

\* a createS3Bucket that throws what its commands throw
createS3BucketRethrows(c, functionArns, fails) ==
    LET bucketExists == checkBucketExists(c, fails)
        head == <<Call("HeadBucket", bucketExists)>>
        createOk == ~c.bucket /\ "CreateBucket" \notin fails
        permitOk == /\ "AddPermission" \notin fails
                    /\ ~c.permission
                    /\ "prepareDataToFiles" \in functionArns
    IN  IF ~bucketExists /\ ~createOk
        THEN Threw("CreateBucket", c, Append(head, Call("CreateBucket", FALSE)))
        ELSE IF ~permitOk
        THEN Threw("AddPermission", [c EXCEPT !.bucket = TRUE],
                   Append(head, Call("AddPermission", FALSE)))
        ELSE IF "PutBucketNotificationConfiguration" \in fails
        THEN Threw("PutBucketNotificationConfiguration",
                   [c EXCEPT !.bucket = TRUE, !.permission = TRUE],
                   Append(head, Call("PutBucketNotificationConfiguration", FALSE)))
        ELSE Returned(BucketName[1],
                      [c EXCEPT !.bucket = TRUE, !.permission = TRUE,
                                !.notification = NotificationConfiguration],
                      Append(head, Call("PutBucketNotificationConfiguration", TRUE)))

\* every error is caught and BUCKET_NAME returned.  CreateBucket is sent when
\* the bucket was not seen; AddPermission fails when the statement is there
\* already or the function has no ARN; the notification is configured only
\* after AddPermission succeeded
createS3Bucket(c, functionArns, fails) ==
    LET bucketExists == checkBucketExists(c, fails)
        head == <<Call("HeadBucket", bucketExists)>>
        createOk == ~c.bucket /\ "CreateBucket" \notin fails
        made == IF bucketExists THEN c
                ELSE IF createOk THEN [c EXCEPT !.bucket = TRUE]
                ELSE c
        log1 == IF bucketExists THEN head ELSE Append(head, Call("CreateBucket", createOk))
        permitOk == /\ "AddPermission" \notin fails
                    /\ ~c.permission
                    /\ "prepareDataToFiles" \in functionArns
        notifyOk == made.bucket /\ "PutBucketNotificationConfiguration" \notin fails
    IN  IF ~permitOk
        THEN Returned(BucketName[1], made, Append(log1, Call("AddPermission", FALSE)))
        ELSE IF ~notifyOk
        THEN Returned(BucketName[1], [made EXCEPT !.permission = TRUE],
                      log1 \o <<Call("AddPermission", TRUE),
                                Call("PutBucketNotificationConfiguration", FALSE)>>)
        ELSE Returned(BucketName[1],
                      [made EXCEPT !.permission = TRUE,
                                   !.notification = NotificationConfiguration],
                      log1 \o <<Call("AddPermission", TRUE),
                                Call("PutBucketNotificationConfiguration", TRUE)>>)

\* the machine of the listing with the name, undefined when there is none and
\* when ListStateMachines fails
getExistingStateMachine(c, listError) ==
    IF listError THEN "undefined"
    ELSE IF c.machines > 0 THEN StateMachineArn
    ELSE "undefined"

\* UpdateStateMachine when a machine was found, CreateStateMachine otherwise.
\* CreateStateMachine for a name that exists is refused, or answered with the
\* machine there is when the request repeats the one that made it.
createStateMachine(c, functionArns, roleArn, listError, commandFails) ==
    LET existingMachine == getExistingStateMachine(c, listError)
        listed == <<Call("ListStateMachines", ~listError)>>
    IN  IF Truthy(existingMachine)
        THEN IF commandFails
             THEN Threw("UpdateStateMachine", c,
                        Append(listed, Call("UpdateStateMachine", FALSE)))
             ELSE Returned(existingMachine, c,
                           Append(listed, Call("UpdateStateMachine", TRUE)))
        ELSE IF commandFails
             THEN Threw("CreateStateMachine", c,
                        Append(listed, Call("CreateStateMachine", FALSE)))
             ELSE Returned(StateMachineArn,
                           [c EXCEPT !.machines = IF @ > 0 THEN @ ELSE 1],
                           Append(listed, Call("CreateStateMachine", TRUE)))

\* the local variables of main at the start of run n
NewFrame(n) ==
    [run |-> n, roleArn |-> "undefined", functionArns |-> {}, bucketName |-> "undefined",
     stateMachineArn |-> "undefined", failed |-> "none"]

InitSetup ==
    /\ pc = "createLambdaRole"
    /\ input = Undef
    /\ output = Undef
    /\ retries = 0
    /\ branches = <<>>
    /\ s3 = <<>>
    /\ puts = <<>>
    /\ clock = 0
    /\ requests = 0
    /\ source = ProviderRecord(Encrypted, Arr(Roster(1)))
    /\ apiMenu = Answers
    /\ faultsLeft = 0
    /\ ticksLeft = 0
    /\ events = <<>>
    /\ calls = <<>>
    /\ cloud = NoResources
    /\ frame = NewFrame(1)

\* main: const roleArn = await createLambdaRole(); a throw, or no ARN, ends the
\* run in the catch block with process.exit(1)
MainCreateLambdaRole ==
    /\ pc = "createLambdaRole"
    /\ \E getRoleError \in BOOLEAN, failAt \in 0..(Len(policies) + 2) :
          LET r == createLambdaRole(cloud, getRoleError, failAt)
          IN  /\ cloud' = r.cloud
              /\ calls' = calls \o r.calls
              /\ IF r.thrown \/ ~Truthy(r.value)
                 THEN /\ pc' = "exit(1)"
                      /\ frame' = [frame EXCEPT !.failed = "createLambdaRole"]
                 ELSE /\ pc' = "createLambdaFunctions"
                      /\ frame' = [frame EXCEPT !.roleArn = r.value]
    /\ UNCHANGED <<pipeline, events>>

MainCreateLambdaFunctions ==
    /\ pc = "createLambdaFunctions"
    /\ \E failAt \in 0..Len(lambdaFunctions) :
          LET r == createLambdaFunctions(cloud, frame.roleArn, failAt)
          IN  /\ cloud' = r.cloud
              /\ calls' = calls \o r.calls
              /\ IF r.thrown
                 THEN /\ pc' = "exit(1)"
                      /\ frame' = [frame EXCEPT !.failed = "createLambdaFunctions"]
                 ELSE /\ pc' = "createS3Bucket"
                      /\ frame' = [frame EXCEPT !.functionArns = r.value]
    /\ UNCHANGED <<pipeline, events>>

MainCreateS3Bucket ==
    /\ pc = "createS3Bucket"
    /\ \E fails \in SUBSET S3Commands :
          LET r == createS3Bucket(cloud, frame.functionArns, fails)
          IN  /\ cloud' = r.cloud
              /\ calls' = calls \o r.calls
              /\ IF r.thrown
                 THEN /\ pc' = "exit(1)"
                      /\ frame' = [frame EXCEPT !.failed = "createS3Bucket"]
                 ELSE /\ pc' = "createStateMachine"
                      /\ frame' = [frame EXCEPT !.bucketName = r.value]
    /\ UNCHANGED <<pipeline, events>>

\* the last step: 'Setup completed successfully!' when it returns
MainCreateStateMachine ==
    /\ pc = "createStateMachine"
    /\ \E listError \in BOOLEAN, commandFails \in BOOLEAN :
          LET r == createStateMachine(cloud, frame.functionArns, frame.roleArn,
                                      listError, commandFails)
          IN  /\ cloud' = r.cloud
              /\ calls' = calls \o r.calls
              /\ IF r.thrown
                 THEN /\ pc' = "exit(1)"
                      /\ frame' = [frame EXCEPT !.failed = "createStateMachine"]
                 ELSE /\ pc' = "completed"
                      /\ frame' = [frame EXCEPT !.stateMachineArn = r.value]
    /\ UNCHANGED <<pipeline, events>>

\* the script is run again on the account the last run left
RunAgain ==
    /\ pc \in {"completed", "exit(1)"}
    /\ frame.run < MaxRuns
    /\ pc' = "createLambdaRole"
    /\ frame' = NewFrame(frame.run + 1)
    /\ calls' = <<>>
    /\ UNCHANGED <<pipeline, events, cloud>>

NextSetup ==
    \/ MainCreateLambdaRole
    \/ MainCreateLambdaFunctions
    \/ MainCreateS3Bucket
    \/ MainCreateStateMachine
    \/ RunAgain

SpecSetup == InitSetup /\ [][NextSetup]_vars

\* C33: whenever createLambdaRole has returned a role ARN, in the first run or
\* in a run after runs that failed, the role has the four managed policies
\* and the inline policy S3BucketAccess.
C33_ReturnedRoleHasPolicies ==
    frame.roleArn = RoleArn
        => /\ cloud.role.managed = {policies[i] : i \in 1..Len(policies)}
           /\ cloud.role.inline = {"S3BucketAccess"}

\* the commands cmd that the step sends
Issued(cmd) == {k \in (Len(calls) + 1)..Len(calls') : calls'[k].cmd = cmd}

\* C34: at most one state machine with the name exists; a run of
\* createStateMachine sends exactly one of UpdateStateMachine and
\* CreateStateMachine, and sends CreateStateMachine only when no machine with
\* the name exists.
C34_UpdateOrCreateNeverDuplicate ==
    [][/\ cloud'.machines <= 1
       /\ pc = "createStateMachine"
             => Cardinality(Issued("UpdateStateMachine"))
                   + Cardinality(Issued("CreateStateMachine")) = 1
       /\ Issued("CreateStateMachine") # {} => cloud.machines = 0]_vars

\* the commands of createS3Bucket that failed in this run
Swallowed ==
    {calls[k].cmd : k \in {h \in 1..Len(calls) :
        /\ calls[h].cmd \in {"CreateBucket", "AddPermission",
                             "PutBucketNotificationConfiguration"}
        /\ ~calls[h].ok}}

\* the commands on the state machine that this run sent
MachineCommands ==
    {k \in 1..Len(calls) : calls[k].cmd \in {"UpdateStateMachine", "CreateStateMachine"}}

\* C35: createS3Bucket never throws: when creating the bucket, adding the
\* permission or configuring the notification fails it still returns the
\* bucket name, main goes on to createStateMachine and reports completion
\* when that returns; a run that createLambdaRole or createLambdaFunctions
\* failed has ended with exit code 1 and sent no UpdateStateMachine or
\* CreateStateMachine.
C35_BucketFailuresSwallowed ==
    /\ frame.failed # "createS3Bucket"
    /\ Swallowed # {}
          => /\ frame.bucketName = BucketName[1]
             /\ pc \in {"createStateMachine", "completed", "exit(1)"}
             /\ pc # "createStateMachine" => MachineCommands # {}
             /\ pc = "completed" <=> \E k \in MachineCommands : calls[k].ok
             /\ pc = "exit(1)" => frame.failed = "createStateMachine"
    /\ frame.failed \in {"createLambdaRole", "createLambdaFunctions"}
          => pc = "exit(1)" /\ MachineCommands = {}

\* a run completed although creating the bucket and adding the permission
\* failed
C35_Witness ==
    /\ pc = "completed"
    /\ Swallowed = {"CreateBucket", "AddPermission"}
    /\ frame.stateMachineArn = StateMachineArn

(***************************************************************************)
(* SpecBackoff: retryWithBackoff(operation, maxAttempts, baseDelay).  Each *)
(* step is one pass of its for loop: operation is invoked and returns a    *)
(* result or throws an error of the environment's choosing.                *)
(***************************************************************************)
\* the largest maxAttempts of a call
MaxTries == 3

\* lastError before any attempt
NoError == [name |-> "undefined", message |-> "undefined"]

\* what an invocation of operation can end with
Results == {"first result", "second result"}

Errors ==
    {[name |-> n, message |-> m] :
        n \in {"ResourceConflictException", "ThrottlingException"},
        m \in {"busy", "slow down"}}

Outcomes ==
    {[ok |-> TRUE, result |-> r, error |-> NoError] : r \in Results}
        \cup {[ok |-> FALSE, result |-> "undefined", error |-> e] : e \in Errors}

RECURSIVE Pow(_, _)
Pow(b, n) == IF n = 0 THEN 1 ELSE b * Pow(b, n - 1)

\* the wait after a failed attempt: baseDelay * 2^(attempt-1) after a
\* ResourceConflictException, baseDelay * 1.5^(attempt-1) after another error
Delay(error, attempt, baseDelay) ==
    IF error.name = "ResourceConflictException"
    THEN baseDelay * Pow(2, attempt - 1)
    ELSE (baseDelay * Pow(3, attempt - 1)) \div Pow(2, attempt - 1)

\* the condition of the for loop
LoopRunsOnceMore(attempt, maxAttempts) == attempt <= maxAttempts + 1

LoopRuns(attempt, maxAttempts) == attempt <= maxAttempts

\* the catch block: wait and continue, or throw the error
Caught(error, attempt, maxAttempts) ==
    IF error.name = "ResourceConflictException" THEN "continue"
    ELSE IF attempt < maxAttempts THEN "continue"
    ELSE "throw"

InitBackoff ==
    /\ pc = "retryWithBackoff"
    /\ \E maxAttempts \in 0..MaxTries :
          input = [maxAttempts |-> maxAttempts, baseDelay |-> 2000]
    /\ output = Undef
    /\ retries = 0
    /\ branches = <<>>
    /\ s3 = <<>>
    /\ puts = <<>>
    /\ clock = 0
    /\ requests = 0
    /\ source = ProviderRecord(Encrypted, Arr(Roster(1)))
    /\ apiMenu = Answers
    /\ faultsLeft = 0
    /\ ticksLeft = 0
    /\ events = <<>>
    /\ calls = <<>>
    /\ cloud = NoResources
    /\ frame = [attempt |-> 1, lastError |-> NoError]

\* one pass of the loop: return await operation(), or the catch block
Attempt ==
    /\ pc = "retryWithBackoff"
    /\ LoopRuns(frame.attempt, input.maxAttempts)
    /\ \E outcome \in Outcomes :
          /\ calls' = Append(calls, outcome)
          /\ IF outcome.ok
             THEN /\ pc' = "returned"
                  /\ output' = [returned |-> outcome.result]
                  /\ UNCHANGED <<frame, clock>>
             ELSE IF Caught(outcome.error, frame.attempt, input.maxAttempts) = "continue"
             THEN /\ frame' = [attempt |-> frame.attempt + 1, lastError |-> outcome.error]
                  /\ clock' = clock + Delay(outcome.error, frame.attempt, input.baseDelay)
                  /\ UNCHANGED <<pc, output>>
             ELSE /\ pc' = "thrown"
                  /\ output' = [thrown |-> outcome.error]
                  /\ frame' = [frame EXCEPT !.lastError = outcome.error]
                  /\ UNCHANGED clock
    /\ UNCHANGED <<input, retries, branches, s3, puts, source, apiMenu, requests,
                   faultsLeft, ticksLeft, events, cloud>>

\* the loop has ended: throw lastError
Exhausted ==
    /\ pc = "retryWithBackoff"
    /\ ~LoopRuns(frame.attempt, input.maxAttempts)
    /\ pc' = "thrown"
    /\ output' = [thrown |-> frame.lastError]
    /\ UNCHANGED <<input, retries, branches, s3, puts, clock, source, apiMenu, requests,
                   faultsLeft, ticksLeft, events, calls, cloud, frame>>

NextBackoff ==
    \/ Attempt
    \/ Exhausted

SpecBackoff == InitBackoff /\ [][NextBackoff]_vars

\* C36: retryWithBackoff invokes operation at most maxAttempts times and ends
\* after at most that many passes: when it has returned, it returned the
\* result of the last invocation, the only one that succeeded; when it has
\* thrown, every one of its maxAttempts invocations failed and it threw the
\* error of the last, be it a ResourceConflictException or another error.
C36_AtMostMaxAttempts ==
    /\ Len(calls) <= input.maxAttempts
    /\ pc = "retryWithBackoff" => frame.attempt = Len(calls) + 1
    /\ pc = "returned"
          => /\ calls # <<>>
             /\ calls[Len(calls)].ok
             /\ output = [returned |-> calls[Len(calls)].result]
             /\ \A k \in 1..(Len(calls) - 1) : ~calls[k].ok
    /\ pc = "thrown"
          => /\ Len(calls) = input.maxAttempts
             /\ \A k \in 1..Len(calls) : ~calls[k].ok
             /\ calls # <<>> => output = [thrown |-> calls[Len(calls)].error]

\* three attempts failed, the last with a ResourceConflictException other than
\* the errors before it, and that error was thrown
C36_Witness ==
    /\ pc = "thrown"
    /\ Len(calls) = 3
    /\ calls[1].error.name = "ThrottlingException"
    /\ calls[3].error = [name |-> "ResourceConflictException", message |-> "busy"]
    /\ calls[2].error # calls[3].error
    /\ output = [thrown |-> calls[3].error]

====
